---------------------------- MODULE Spec2Model ----------------------------
(***************************************************************************)
(* A model of Frontend/src/utils/AudioManager.ts: one AudioManager object  *)
(* (its state record, its private fields, its observers), the media        *)
(* elements and the speech engine it drives, and the asynchronous work it  *)
(* leaves pending (existence check, per-unit synthesis calls, rendering,    *)
(* upload, verification, timers).  The browser runs one handler at a time: *)
(* an action is one public call up to its first real suspension, or one    *)
(* completion (a resolved await, a timer, a media or speech event) up to   *)
(* the next one.                                                           *)
(***************************************************************************)
EXTENDS Naturals, Integers, Sequences, FiniteSets, TLC

VARIABLES
    voiceId,              \* config.voiceId: "system" or "premium"
    state,                \* this.state (AudioManagerState)
    isDestroyed,          \* this.isDestroyed
    manualStop,           \* this.manualStop
    currentAudioElement,  \* this.currentAudioElement: 0 is null, else an element
    speechUtterance,      \* this.speechUtterance is not null
    stateListeners,       \* this.stateListeners
    elems,                \* the HTMLAudioElements created by playFromCache
    speaking,             \* speechSynthesis.speaking || speechSynthesis.pending
    uttLate,              \* cancelled utterances whose end/error event is still queued
    syncTimers,           \* pending 500 ms reconciliation timers (playWithSystemVoice)
    stopTimers,           \* pending 300 ms manualStop reset timers (stop)
    initPending,          \* initialize() calls awaiting checkExistingAudio
    s3Inflight,           \* playFromS3 calls awaiting URL resolution / download
    jobs,                 \* createAudio() calls in flight and their persistence
    priorListeners,       \* history: the observers subscribed when destroy() was entered
    lateNotified,         \* history: those of them setState has notified since
    stopPlay,             \* history: stop() has been followed at once by play()
    foundNoSource,        \* history: the handler that just ran was play() finding no source
    missed,               \* history: the subscribed observers a mutation was not handed to
    notified,             \* history: the observers the handler that just ran called, and with what
    rejected,             \* history: a promise returned by a public call has rejected
    stopWindow,           \* history: pending timers of the stop() that cancelled the queued
                          \*          utterance and of the stops made after it (0: window closed)
    chunking,             \* a text on its way through the two chunkers
    view,                 \* the StoryView that owns the manager of its active tab
    sideRecord,           \* artifact_stories.json and the managers updating it
    shown,                \* what StoryView displays of its manager, and what the
                          \*   callback it subscribed holds of the render it was made in
    syncWaits             \* for each pending 500 ms timer, oldest first, the 300 ms
                          \*   timers set before it that have not run out yet

managerVars == << voiceId, state, isDestroyed, manualStop, currentAudioElement,
                  speechUtterance, stateListeners, elems, speaking, uttLate,
                  syncTimers, stopTimers, initPending, s3Inflight, jobs,
                  priorListeners, lateNotified, stopPlay, foundNoSource, missed, notified,
                  rejected, stopWindow >>

vars == << voiceId, state, isDestroyed, manualStop, currentAudioElement,
           speechUtterance, stateListeners, elems, speaking, uttLate,
           syncTimers, stopTimers, initPending, s3Inflight, jobs,
           priorListeners, lateNotified, stopPlay, foundNoSource, missed, notified,
           rejected, stopWindow, chunking, view, sideRecord, shown, syncWaits >>

----------------------------------------------------------------------------
(* Bounds of the model *)

MaxParagraphs == 2
ParaLen == 120
MaxElems == 2
MaxJobs == 1
MaxObservers == 1
MaxUttLate == 1
MaxSyncTimers == 1
MaxStopTimers == 1
MaxOverlap == 1
MaxStories == 3
MaxWriters == 2
MaxInit == 1
MaxS3 == 1
MaxTextParagraphs == 3
MaxSentences == 30
MaxSwitches == 1

(* Program constants *)

MAX_CHUNK_SIZE == 2900
MAX_PARAGRAPH_LENGTH == 500
MaxUnits == 4

Elems == 1..MaxElems
JobIds == 1..MaxJobs
Observers == 1..MaxObservers

Undefined == "undefined"
NotNotified == [who |-> {}, snapshot |-> Undefined]
AudioPath == "userId/artifactId/story_audio_n.mp3"
BlobTrack == "blob:rendered-track"
BlobRemote == "blob:downloaded-track"

Min(a, b) == IF a < b THEN a ELSE b
Max(a, b) == IF a > b THEN a ELSE b

RECURSIVE SumSeq(_)
SumSeq(s) == IF s = << >> THEN 0 ELSE Head(s) + SumSeq(Tail(s))

----------------------------------------------------------------------------
(* Texts.  A text is a sequence of paragraphs (the pieces between blank     *)
(* lines); a paragraph is the lengths of its sentences (each a match of    *)
(* /[^.!?]+[.!?]+/) and the number of characters no match covers.          *)

Paragraph(sents, rest) == [sents |-> sents, rest |-> rest]
ParagraphLength(p) == SumSeq(p.sents) + p.rest

RECURSIVE PackSentences(_, _)
PackSentences(sentences, currentChunk) ==
    IF sentences = << >>
    THEN IF currentChunk > 0 THEN << currentChunk >> ELSE << >>
    ELSE LET sentence == Head(sentences) IN
         IF currentChunk + sentence <= MAX_PARAGRAPH_LENGTH
         THEN PackSentences(Tail(sentences), currentChunk + sentence)
         ELSE (IF currentChunk > 0 THEN << currentChunk >> ELSE << >>)
              \o PackSentences(Tail(sentences), sentence)

RECURSIVE splitTextIntoParagraphs(_)
splitTextIntoParagraphs(text) ==
    IF text = << >> THEN << >>
    ELSE LET p == Head(text)
             n == ParagraphLength(p)
             here == IF n = 0 THEN << >>
                     ELSE IF n <= MAX_PARAGRAPH_LENGTH THEN << n >>
                     ELSE PackSentences(IF p.sents = << >> THEN << n >> ELSE p.sents, 0)
         IN  here \o splitTextIntoParagraphs(Tail(text))

RECURSIVE PackParagraphs(_, _, _)
PackParagraphs(paragraphs, currentChunk, adjustedChunkSize) ==
    IF paragraphs = << >>
    THEN IF currentChunk > 0 THEN << currentChunk >> ELSE << >>
    ELSE LET paragraph == Head(paragraphs) IN
         IF currentChunk + paragraph + 2 > adjustedChunkSize /\ currentChunk > 0
         THEN << currentChunk >> \o PackParagraphs(Tail(paragraphs), paragraph, adjustedChunkSize)
         ELSE PackParagraphs(Tail(paragraphs),
                             IF currentChunk > 0 THEN currentChunk + 2 + paragraph ELSE paragraph,
                             adjustedChunkSize)

(* createOptimizedChunks on the text whose pieces between "\n\n" have the   *)
(* lengths `pieces` (a piece of length 0 is blank and is filtered out).     *)
createOptimizedChunks(pieces) ==
    LET paragraphs == SelectSeq(pieces, LAMBDA n : n > 0)
        totalLength == SumSeq(pieces) + 2 * Max(Len(pieces) - 1, 0)
        targetChunkCount == Min(MaxUnits, Len(paragraphs))
        targetChunkSize == IF targetChunkCount = 0 THEN 0
                           ELSE (totalLength + targetChunkCount - 1) \div targetChunkCount
        adjustedChunkSize == Min(targetChunkSize, MAX_CHUNK_SIZE)
    IN  PackParagraphs(paragraphs, 0, adjustedChunkSize)

(* The texts initialize() is given in the manager's model. *)
Texts == { [i \in 1..n |-> Paragraph(<< ParaLen >>, 0)] : n \in 0..MaxParagraphs }

(* The texts the chunkers are given on their own: n paragraphs, each of k   *)
(* sentences of s characters followed by r characters that end in no        *)
(* sentence punctuation.  Text(1, 30, 300, 0) is 9000 characters long.      *)
(* A text holds at most MaxSentences sentences in all.                      *)
SentenceLengths == {150, 300, 3000}
RestLengths == {0, 60, 3000}

Text(n, k, s, r) == [i \in 1..n |-> Paragraph([x \in 1..k |-> s], r)]

ChunkerTexts ==
    UNION { { Text(n, k, s, r) : k \in 0..(MaxSentences \div Max(n, 1)),
                                 s \in SentenceLengths, r \in RestLengths }
            : n \in 0..MaxTextParagraphs }

(* text.length: the paragraphs and the "\n\n" between them *)
TextLength(text) ==
    SumSeq([i \in 1..Len(text) |-> ParagraphLength(text[i])]) + 2 * Max(Len(text) - 1, 0)

NoChunking == [stage |-> "idle", text |-> << >>, paragraphs |-> << >>, units |-> << >>]

----------------------------------------------------------------------------
(* Chunks (AudioChunk).  A Hole is an array slot never assigned; a field   *)
(* spread from it has no index, written -1.                                *)

Hole == [index |-> -1, len |-> 0, status |-> "hole", audioBuffer |-> FALSE, error |-> FALSE]

NewChunk(i, n) == [index |-> i, len |-> n, status |-> "pending", audioBuffer |-> FALSE, error |-> FALSE]

(* updated[i] = {...updated[i], ...fields} on a copy of the array; i is 0-based *)
SpreadAt(chunks, i, status, buf, err) ==
    LET n == Max(Len(chunks), i + 1)
        old(k) == IF k <= Len(chunks) THEN chunks[k] ELSE Hole
    IN  [k \in 1..n |->
            IF k = i + 1
            THEN [index |-> old(k).index, len |-> old(k).len, status |-> status,
                  audioBuffer |-> IF buf THEN TRUE ELSE old(k).audioBuffer,
                  error |-> IF err THEN TRUE ELSE old(k).error]
            ELSE old(k)]

----------------------------------------------------------------------------
(* The world: every variable as one record, so that a handler is a         *)
(* composition of the functions it calls.  foundNoSource marks one        *)
(* handler, so every handler starts with it lowered.  thrown is the error  *)
(* on its way up the call stack, if any: a handler that ends with one has  *)
(* rejected the promise it returned.                                       *)

World == [ voiceId |-> voiceId, state |-> state, isDestroyed |-> isDestroyed,
           manualStop |-> manualStop, currentAudioElement |-> currentAudioElement,
           speechUtterance |-> speechUtterance, stateListeners |-> stateListeners,
           elems |-> elems, speaking |-> speaking, uttLate |-> uttLate,
           syncTimers |-> syncTimers, stopTimers |-> stopTimers,
           initPending |-> initPending, s3Inflight |-> s3Inflight, jobs |-> jobs,
           priorListeners |-> priorListeners, lateNotified |-> lateNotified,
           stopPlay |-> stopPlay, foundNoSource |-> FALSE, missed |-> missed,
           notified |-> NotNotified, rejected |-> rejected, stopWindow |-> stopWindow,
           thrown |-> Undefined, calls |-> << >> ]

Bounded(w, maxStopTimers) ==
    /\ w.uttLate <= MaxUttLate
    /\ w.syncTimers <= MaxSyncTimers
    /\ w.stopTimers <= maxStopTimers
    /\ w.initPending <= MaxInit
    /\ w.s3Inflight <= MaxS3
    /\ w.currentAudioElement \in 0..MaxElems

WithinBounds(w) == Bounded(w, MaxStopTimers)

Assign(v) ==
        /\ voiceId' = v.voiceId
        /\ state' = v.state
        /\ isDestroyed' = v.isDestroyed
        /\ manualStop' = v.manualStop
        /\ currentAudioElement' = v.currentAudioElement
        /\ speechUtterance' = v.speechUtterance
        /\ stateListeners' = v.stateListeners
        /\ elems' = v.elems
        /\ speaking' = v.speaking
        /\ uttLate' = v.uttLate
        /\ syncTimers' = v.syncTimers
        /\ stopTimers' = v.stopTimers
        /\ initPending' = v.initPending
        /\ s3Inflight' = v.s3Inflight
        /\ jobs' = v.jobs
        /\ priorListeners' = v.priorListeners
        /\ lateNotified' = v.lateNotified
        /\ stopPlay' = v.stopPlay
        /\ foundNoSource' = v.foundNoSource
        /\ missed' = v.missed
        /\ notified' = v.notified
        /\ rejected' = (v.rejected \/ v.thrown # Undefined)
        /\ stopWindow' = v.stopWindow

CommitManager(w) == \E v \in {w} : WithinBounds(v) /\ Assign(v)

Commit(w) ==
    /\ CommitManager(w)
    /\ UNCHANGED << chunking, view, sideRecord, shown, syncWaits >>

----------------------------------------------------------------------------
(* State store *)

(* listener(stateCopy) for each of `listeners` *)
Called(w, listeners, stateCopy) ==
    IF listeners = {} THEN w.notified
    ELSE [who |-> w.notified.who \cup listeners, snapshot |-> stateCopy]

(* the calls of listeners a handler has made so far, in order; isSpeaking  *)
(* is what isSpeechSynthesisSpeaking() returns during the call             *)
Calls(w, listeners, stateCopy) ==
    IF listeners = {} THEN w.calls
    ELSE Append(w.calls, [who |-> listeners, snapshot |-> stateCopy, isSpeaking |-> w.speaking])

(* a store that tells the listeners whatever isDestroyed says *)
setStateUnguarded(w, newState) ==
    [w EXCEPT !.state = newState,
              !.lateNotified = w.lateNotified \cup (w.stateListeners \cap w.priorListeners),
              !.missed = w.missed \ w.stateListeners,
              !.notified = Called(w, w.stateListeners, newState)]

(* setState(newState): every caller passes {...this.state, <fields>}, so    *)
(* the merge at line 1551 yields newState; listeners are told unless the    *)
(* manager is destroyed.  An observer called with the new state holds it;  *)
(* one that is subscribed and not called has missed the mutation.          *)
setState(w, newState) ==
    [w EXCEPT !.state = newState,
              !.lateNotified =
                  IF ~w.isDestroyed
                  THEN w.lateNotified \cup (w.stateListeners \cap w.priorListeners)
                  ELSE w.lateNotified,
              !.missed = IF ~w.isDestroyed THEN w.missed \ w.stateListeners
                         ELSE IF newState # w.state THEN w.missed \cup w.stateListeners
                         ELSE w.missed,
              !.notified = IF ~w.isDestroyed THEN Called(w, w.stateListeners, newState)
                           ELSE w.notified,
              !.calls = IF ~w.isDestroyed THEN Calls(w, w.stateListeners, newState)
                        ELSE w.calls]

SetPlaying(w, b) == setState(w, [w.state EXCEPT !.isPlaying = b])

----------------------------------------------------------------------------
(* Media elements *)

FreeElem == [st |-> "free", muted |-> FALSE, handlers |-> FALSE, pauseEv |-> FALSE, err |-> FALSE]
NewElem == [st |-> "loading", muted |-> FALSE, handlers |-> TRUE, pauseEv |-> FALSE, err |-> FALSE]

(* A finished element no event is queued for and nothing refers to is gone. *)
Collect(w) ==
    [w EXCEPT !.elems = [e \in Elems |->
        IF w.elems[e].st = "dead" /\ ~w.elems[e].pauseEv /\ w.currentAudioElement # e
        THEN FreeElem ELSE w.elems[e]]]

HasFreeElem(w) == \E e \in Elems : w.elems[e].st = "free"
FirstFreeElem(w) == CHOOSE e \in Elems :
    /\ w.elems[e].st = "free"
    /\ \A f \in Elems : w.elems[f].st = "free" => e <= f

(* a teardown that pauses the element and forgets to mute it *)
StopElementNoMute(w) ==
    LET e == w.currentAudioElement
        el == w.elems[e]
        running == el.st \in {"starting", "playing"}
    IN  IF e = 0 THEN w
        ELSE [w EXCEPT !.elems[e] = [st |-> IF running THEN "dead" ELSE el.st,
                                     muted |-> el.muted,
                                     handlers |-> FALSE,
                                     pauseEv |-> el.pauseEv \/ running,
                                     err |-> el.err],
                       !.currentAudioElement = 0]

(* lines 915-931: pause, rewind, mute, drop onended/onerror, clear the ref  *)
StopElement(w) ==
    LET e == w.currentAudioElement
        el == w.elems[e]
        running == el.st \in {"starting", "playing"}
    IN  IF e = 0 THEN w
        ELSE [w EXCEPT !.elems[e] = [st |-> IF running THEN "dead" ELSE el.st,
                                     muted |-> TRUE,
                                     handlers |-> FALSE,
                                     pauseEv |-> el.pauseEv \/ running,
                                     err |-> el.err],
                       !.currentAudioElement = 0]

(* a teardown that cancels the speech queue and keeps the utterance *)
StopSpeechKeepsUtterance(w) ==
    IF w.speaking
    THEN [w EXCEPT !.speaking = FALSE, !.uttLate = @ + 1]
    ELSE w

(* lines 934-950: cancel the speech queue if the engine speaks or is pending *)
StopSpeech(w) ==
    IF w.speaking
    THEN [w EXCEPT !.speaking = FALSE, !.speechUtterance = FALSE, !.uttLate = @ + 1]
    ELSE w

stopAnyExistingAudio(w) ==
    LET w1 == IF w.state.isPlaying THEN SetPlaying(w, FALSE) ELSE w
    IN  StopSpeech(StopElement(w1))

stop(w) ==
    LET w1 == [w EXCEPT !.manualStop = TRUE]
        w2 == SetPlaying(stopAnyExistingAudio(w1), FALSE)
    IN  [w2 EXCEPT !.stopTimers = @ + 1,
                   !.stopWindow = IF w.speaking THEN 1 ELSE IF @ > 0 THEN @ + 1 ELSE 0]

playFromCache(w, cachePath) ==
    LET w1 == Collect(stopAnyExistingAudio(w))
        e == FirstFreeElem(w1)
    IN  IF HasFreeElem(w1)
        THEN [w1 EXCEPT !.elems[e] = NewElem, !.currentAudioElement = e]
        ELSE [w1 EXCEPT !.currentAudioElement = MaxElems + 1]

playFromS3(w, s3Path) == [w EXCEPT !.s3Inflight = @ + 1]

playWithSystemVoice(w) ==
    LET w1 == stopAnyExistingAudio(w)
        w2 == SetPlaying([w1 EXCEPT !.speechUtterance = TRUE], TRUE)
    IN  [w2 EXCEPT !.speaking = TRUE, !.syncTimers = @ + 1]

(* a selection that asks for the on-device voice before it looks at files *)
playVoiceFirst(w, forceUseFile) ==
    IF w.state.isPlaying THEN w
    ELSE LET w1 == SetPlaying(w, TRUE)
             s == w1.state
         IN  IF s.useSystemVoice THEN playWithSystemVoice(w1)
             ELSE IF s.cachePath # Undefined THEN playFromCache(w1, s.cachePath)
             ELSE IF s.s3Path # Undefined THEN playFromS3(w1, s.s3Path)
             ELSE SetPlaying(w1, FALSE)

play(w, forceUseFile) ==
    IF w.state.isPlaying THEN w
    ELSE LET w1 == SetPlaying(w, TRUE)
             s == w1.state
             useExistingFile == forceUseFile /\ (s.cachePath # Undefined \/ s.s3Path # Undefined)
         IN  IF useExistingFile /\ s.cachePath # Undefined THEN playFromCache(w1, s.cachePath)
             ELSE IF useExistingFile THEN playFromS3(w1, s.s3Path)
             ELSE IF s.useSystemVoice THEN playWithSystemVoice(w1)
             ELSE IF s.audioStatus # "ready"
                  THEN [SetPlaying(w1, FALSE) EXCEPT !.foundNoSource = TRUE]
             ELSE IF s.cachePath # Undefined THEN playFromCache(w1, s.cachePath)
             ELSE IF s.s3Path # Undefined THEN playFromS3(w1, s.s3Path)
             ELSE [setState(w1, [s EXCEPT !.isPlaying = FALSE, !.audioStatus = "error",
                                          !.audioError = "No audio path available for playback"])
                      EXCEPT !.foundNoSource = TRUE]

togglePlayback(w, forceUseFile) ==
    LET w1 == IF w.state.useSystemVoice /\ ~forceUseFile /\ w.speaking # w.state.isPlaying
              THEN SetPlaying(w, w.speaking) ELSE w
    IN  IF w1.state.isPlaying THEN stop(w1) ELSE play(w1, forceUseFile)

destroy(w) ==
    LET w0 == [w EXCEPT !.priorListeners = w.stateListeners,
                        !.jobs = [j \in JobIds |->
                                     [w.jobs[j] EXCEPT !.dSynth = @ \/ (w.jobs[j].phase = "synth")]]]
        w1 == stop([w0 EXCEPT !.isDestroyed = TRUE])
    IN  [w1 EXCEPT !.stateListeners = {}, !.missed = {}]

----------------------------------------------------------------------------
(* createAudio and persistence.  A job is one createAudio() call that has  *)
(* issued its synthesis calls: n calls, res[i] the outcome of call i       *)
(* ("wait" while in flight).  The other fields record what the job did:    *)
(* uploaded (a put of the audio object succeeded), verified (the key was   *)
(* re-resolved after the settling delay), saved (the job stored a rendered *)
(* track in cachePath), alt (the alternate upload was attempted), cb       *)
(* (invocations of config.updateStoryAudio), puts (calls of                *)
(* enhancedStorage.put for the audio object that have settled), dSynth     *)
(* (destroy() was entered while the calls were in flight), and the state   *)
(* createAudio() resolved                                                  *)
(* with.  track is the rendered track: the array positions of the chunks   *)
(* whose buffers were scheduled, in the order they were scheduled.         *)

FreeJob == [phase |-> "free", n |-> 0, res |-> << >>, track |-> << >>, saved |-> FALSE, alt |-> FALSE,
            uploaded |-> FALSE, verified |-> FALSE, cb |-> 0, puts |-> 0, dSynth |-> FALSE,
            endStatus |-> Undefined, endCache |-> FALSE, endError |-> FALSE]

HasFreeJob(w) == \E j \in JobIds : w.jobs[j].phase \in {"free", "done"}
FirstFreeJob(w) == CHOOSE j \in JobIds :
    /\ w.jobs[j].phase \in {"free", "done"}
    /\ \A k \in JobIds : w.jobs[k].phase \in {"free", "done"} => j <= k

Successful(job) == Cardinality({i \in 1..job.n : job.res[i] = "ok"})
Settled(job) == \A i \in 1..job.n : job.res[i] # "wait"

(* createAudio() returns: what it resolved with *)
Resolve(w, j, phase) ==
    [w EXCEPT !.jobs[j].phase = phase,
              !.jobs[j].endStatus = w.state.audioStatus,
              !.jobs[j].endCache = (w.state.cachePath # Undefined),
              !.jobs[j].endError = (w.state.audioError # Undefined)]

(* throw new Error(msg) *)
Throw(w, msg) == [w EXCEPT !.thrown = msg]

(* a catch that leaves the status as it finds it *)
createAudioFailedSilently(w, j, msg) == Resolve(w, j, "done")

(* a createAudio whose try has no catch *)
createAudioUncaught(w, j, msg) == Resolve(Throw(w, msg), j, "done")

(* an error thrown inside the try of createAudio, and its catch, lines      *)
(* 277-284                                                                  *)
createAudioFailed(w, j, msg) ==
    LET t == Throw(w, msg)
        c == [t EXCEPT !.thrown = Undefined]
    IN  Resolve(setState(c, [c.state EXCEPT !.audioStatus = "error", !.audioError = t.thrown]),
                j, "done")

(* saveAudioForPlayback, lines 343-381: the chunks marked complete that    *)
(* hold a buffer, sorted by index (the array is in index order, and a      *)
(* chunk without an index compares equal to every other), each scheduled   *)
(* at the end of the one before                                            *)
completeChunks(chunks) ==
    SelectSeq([k \in 1..Len(chunks) |-> k - 1],
              LAMBDA p : chunks[p + 1].status = "complete" /\ chunks[p + 1].audioBuffer)

(* a createAudio that goes on only once a unit has succeeded *)
afterAllSettledAwaitsSuccess(w, j) ==
    LET complete == completeChunks(w.state.chunks)
    IN  IF Successful(w.jobs[j]) > 0
        THEN IF complete = << >>
             THEN createAudioFailed(w, j, "Error: No complete audio chunks for playback")
             ELSE [w EXCEPT !.jobs[j].phase = "render", !.jobs[j].track = complete]
        ELSE w

(* after Promise.allSettled, lines 257-276, and the start of               *)
(* saveAudioForPlayback, lines 343-350                                     *)
afterAllSettled(w, j) ==
    LET complete == completeChunks(w.state.chunks)
    IN  IF Successful(w.jobs[j]) > 0
        THEN IF complete = << >>
             THEN createAudioFailed(w, j, "Error: No complete audio chunks for playback")
             ELSE [w EXCEPT !.jobs[j].phase = "render", !.jobs[j].track = complete]
        ELSE createAudioFailed(w, j, "Error: No chunks were processed successfully")

(* the job a createAudio() call starts, lines 173-254 *)
startJob(w) ==
    LET w1 == setState(w, [w.state EXCEPT !.audioStatus = "creating", !.audioError = Undefined])
        pieces == [i \in 1..Len(w1.state.chunks) |-> w1.state.chunks[i].len]
        optimizedTextChunks == createOptimizedChunks(pieces)
        n == Len(optimizedTextChunks)
        optimizedChunks == [i \in 1..n |-> NewChunk(i - 1, optimizedTextChunks[i])]
        w2 == setState(w1, [w1.state EXCEPT !.chunks = optimizedChunks])
        w3 == setState(w2, [w2.state EXCEPT !.chunks =
                               [i \in 1..n |-> [optimizedChunks[i] EXCEPT !.status = "processing"]]])
        j == FirstFreeJob(w)
        w4 == [w3 EXCEPT !.jobs[j] = [FreeJob EXCEPT !.phase = "synth", !.n = n,
                                                      !.res = [i \in 1..n |-> "wait"]]]
    IN  IF n = 0 THEN afterAllSettled(w4, j) ELSE w4

(* a createAudio that only declines while a job is being created *)
createAudioWhenReady(w) ==
    IF w.state.useSystemVoice
    THEN setState(w, [w.state EXCEPT !.audioStatus = "ready"])
    ELSE IF w.state.audioStatus = "creating" THEN w
    ELSE startJob(w)

createAudio(w) ==
    IF w.state.useSystemVoice
    THEN setState(w, [w.state EXCEPT !.audioStatus = "ready"])
    ELSE IF w.state.audioStatus \in {"creating", "ready"} THEN w
    ELSE startJob(w)

(* one synthesis call settles, lines 216-253; i is the unit's index *)
chunkDone(w, j, i, ok) ==
    LET chunks == IF ok THEN SpreadAt(w.state.chunks, i, "complete", TRUE, FALSE)
                  ELSE SpreadAt(w.state.chunks, i, "error", FALSE, TRUE)
        w1 == setState(w, [w.state EXCEPT !.chunks = chunks])
        w2 == [w1 EXCEPT !.jobs[j].res[i + 1] = IF ok THEN "ok" ELSE "fail"]
    IN  IF Settled(w2.jobs[j]) THEN afterAllSettled(w2, j) ELSE w2

(* saveAudioForPlayback after rendering, lines 383-397, then the start of  *)
(* saveAudioToS3InBackground, which createAudio does not await             *)
renderDone(w, j) ==
    LET w1 == setState(w, [w.state EXCEPT !.cachePath = BlobTrack, !.audioStatus = "ready"])
    IN  Resolve([w1 EXCEPT !.jobs[j].saved = TRUE], j, "upload")

(* catch (uploadError), lines 464-475: the alternate upload starts unless   *)
(* cachePath is missing                                                     *)
uploadFailed(w, j) ==
    IF w.state.cachePath = Undefined
    THEN [w EXCEPT !.jobs[j].phase = "done"]
    ELSE [w EXCEPT !.jobs[j].phase = "altUpload", !.jobs[j].alt = TRUE]

(* fetch(cachePath) or the reading of its blob rejects, lines 420-424 and   *)
(* 473-474: no put is made                                                  *)
fetchFailed(w, j) ==
    IF w.jobs[j].phase = "upload" THEN uploadFailed(w, j)
    ELSE [w EXCEPT !.jobs[j].phase = "done"]

(* an upload that invokes updateStoryAudio as soon as the object is put *)
uploadDoneEager(w, j, ok) ==
    IF ok
    THEN LET w1 == setState(w, [w.state EXCEPT !.s3Path = AudioPath])
         IN  [w1 EXCEPT !.jobs[j].uploaded = TRUE, !.jobs[j].cb = @ + 1,
                        !.jobs[j].puts = @ + 1, !.jobs[j].phase = "verify"]
    ELSE uploadFailed([w EXCEPT !.jobs[j].puts = @ + 1], j)

(* enhancedStorage.put settles, lines 427-463, or its catch, lines 464-472 *)
uploadDone(w, j, ok) ==
    IF ok
    THEN LET w1 == setState(w, [w.state EXCEPT !.s3Path = AudioPath])
         IN  [w1 EXCEPT !.jobs[j].uploaded = TRUE, !.jobs[j].puts = @ + 1,
                        !.jobs[j].phase = "verify"]
    ELSE uploadFailed([w EXCEPT !.jobs[j].puts = @ + 1], j)

(* the verification timer, lines 445-463 *)
verifyDone(w, j, ok) ==
    IF ok
    THEN [w EXCEPT !.jobs[j].verified = TRUE, !.jobs[j].cb = @ + 1, !.jobs[j].phase = "done"]
    ELSE [w EXCEPT !.jobs[j].phase = "done"]

(* an alternate upload whose failure ends the job in error *)
altUploadDoneFatal(w, j, ok) ==
    IF ok
    THEN LET w1 == setState(w, [w.state EXCEPT !.s3Path = AudioPath])
         IN  [w1 EXCEPT !.jobs[j].uploaded = TRUE, !.jobs[j].cb = @ + 1,
                        !.jobs[j].puts = @ + 1, !.jobs[j].phase = "done"]
    ELSE [setState(w, [w.state EXCEPT !.audioStatus = "error",
                                      !.audioError = "Alternative upload also failed"])
             EXCEPT !.jobs[j].puts = @ + 1, !.jobs[j].phase = "done"]

(* an alternate upload that is tried again when it fails *)
altUploadDoneRetrying(w, j, ok) ==
    IF ok
    THEN LET w1 == setState(w, [w.state EXCEPT !.s3Path = AudioPath])
         IN  [w1 EXCEPT !.jobs[j].uploaded = TRUE, !.jobs[j].cb = @ + 1,
                        !.jobs[j].puts = @ + 1, !.jobs[j].phase = "done"]
    ELSE [w EXCEPT !.jobs[j].puts = @ + 1]

(* the alternate upload settles, lines 476-500 *)
altUploadDone(w, j, ok) ==
    IF ok
    THEN LET w1 == setState(w, [w.state EXCEPT !.s3Path = AudioPath])
         IN  [w1 EXCEPT !.jobs[j].uploaded = TRUE, !.jobs[j].cb = @ + 1,
                        !.jobs[j].puts = @ + 1, !.jobs[j].phase = "done"]
    ELSE [w EXCEPT !.jobs[j].puts = @ + 1, !.jobs[j].phase = "done"]

----------------------------------------------------------------------------
(* Completions of playback *)

(* a fetch whose failure leaves isPlaying as it is *)
playFromS3DoneKeepsPlaying(w, outcome) ==
    LET w0 == [w EXCEPT !.s3Inflight = @ - 1]
        failed(msg) == setState(w0, [w0.state EXCEPT !.s3Path = Undefined,
                                                      !.audioStatus = "error", !.audioError = msg])
    IN  IF outcome = "notfound" THEN failed("Audio file not found in storage")
        ELSE IF outcome = "failed" THEN failed("Failed to play audio from storage")
        ELSE playFromCache(setState(w0, [w0.state EXCEPT !.cachePath = BlobRemote]), BlobRemote)

(* playFromS3 after its awaits (lines 1155-1240): the key could not be      *)
(* resolved, the download failed, or the track was fetched and is played.  *)
playFromS3Done(w, outcome) ==
    LET w0 == [w EXCEPT !.s3Inflight = @ - 1]
        failed(msg) == setState(w0, [w0.state EXCEPT !.s3Path = Undefined, !.isPlaying = FALSE,
                                                      !.audioStatus = "error", !.audioError = msg])
    IN  IF outcome = "notfound" THEN failed("Audio file not found in storage")
        ELSE IF outcome = "failed" THEN failed("Failed to play audio from storage")
        ELSE playFromCache(setState(w0, [w0.state EXCEPT !.cachePath = BlobRemote]), BlobRemote)

(* playFromCache after `await audio.load()` and the canplay wait: audio.play() *)
loadDone(w, e) ==
    [w EXCEPT !.elems[e].st = IF w.elems[e].err THEN "dead" ELSE "starting"]

(* playPromise.then, lines 831-837 *)
playResolved(w, e) ==
    SetPlaying([w EXCEPT !.elems[e].st = "playing"], TRUE)

(* playPromise.catch with NotAllowedError, lines 838-854 *)
playRejected(w, e) ==
    LET w1 == [w EXCEPT !.elems[e].st = "dead"]
    IN  setState(w1, [w1.state EXCEPT !.isPlaying = FALSE, !.cachePath = Undefined])

(* audio.onerror, lines 770-784, when still attached *)
elemError(w, e) ==
    LET w1 == [w EXCEPT !.elems[e].st = IF @ = "loading" THEN "loading" ELSE "dead",
                        !.elems[e].err = TRUE]
    IN  IF w.elems[e].handlers
        THEN [setState(w1, [w1.state EXCEPT !.isPlaying = FALSE, !.cachePath = Undefined])
                 EXCEPT !.currentAudioElement = 0]
        ELSE w1

(* audio.onpause, lines 790-796 (never detached) *)
(* a pause handler that honours the manual-stop flag as onended does *)
audioOnPauseUnlessStopped(w) == IF w.manualStop THEN w ELSE SetPlaying(w, FALSE)

audioOnPause(w) == SetPlaying(w, FALSE)

(* audio.onended, lines 759-768 *)
audioOnEnded(w) ==
    [(IF ~w.manualStop THEN SetPlaying(w, FALSE) ELSE w) EXCEPT !.currentAudioElement = 0]

(* playback reaches the end of the track: a pause event, then an ended event *)
elemEnded(w, e) ==
    LET w1 == audioOnPause([w EXCEPT !.elems[e].st = "dead"])
    IN  IF w.elems[e].handlers THEN audioOnEnded(w1) ELSE w1

(* the pause event queued by pause() in stopAnyExistingAudio *)
pauseEvent(w, e) == audioOnPause([w EXCEPT !.elems[e].pauseEv = FALSE])

(* speechUtterance.onend, lines 689-699 *)
utteranceOnEnd(w) ==
    [(IF ~w.manualStop THEN SetPlaying(w, FALSE) ELSE w) EXCEPT !.speechUtterance = FALSE]

(* speechUtterance.onerror, lines 701-710 *)
utteranceOnError(w) ==
    [setState(w, [w.state EXCEPT !.isPlaying = FALSE,
                                 !.audioError = "Error with system voice playback"])
        EXCEPT !.speechUtterance = FALSE]

(* the 300 ms timer of stop(), lines 885-887.  The timers run out in the    *)
(* order of their stop() calls, so the one that runs out is the oldest.     *)
stopTimer(w) ==
    [w EXCEPT !.stopTimers = @ - 1, !.manualStop = FALSE,
              !.stopWindow = IF @ = w.stopTimers THEN 0 ELSE @]

(* a timer that compares and keeps what it finds to itself *)
syncTimerSilent(w) == w

(* the 500 ms timer of playWithSystemVoice, lines 722-734 *)
syncTimer(w) ==
    IF w.speaking # w.state.isPlaying THEN SetPlaying(w, w.speaking) ELSE w

----------------------------------------------------------------------------
(* Job bookkeeping that is not synthesis *)

initialize(w, text) ==
    LET paragraphs == splitTextIntoParagraphs(text)
        chunks == [i \in 1..Len(paragraphs) |-> NewChunk(i - 1, paragraphs[i])]
    IN  IF w.voiceId = "system"
        THEN setState(w, [w.state EXCEPT !.chunks = chunks, !.currentChunkIndex = 0,
                                         !.audioStatus = "ready", !.useSystemVoice = TRUE])
        ELSE [setState(w, [w.state EXCEPT !.chunks = chunks, !.currentChunkIndex = 0,
                                          !.audioStatus = "notcreated", !.useSystemVoice = FALSE])
                 EXCEPT !.initPending = @ + 1]

(* initialize after `await this.checkExistingAudio()`, lines 137-150 and 1023-1101 *)
initializeDone(w, exists) ==
    LET w0 == [w EXCEPT !.initPending = @ - 1]
    IN  IF exists
        THEN LET w1 == setState(w0, [w0.state EXCEPT !.s3Path = AudioPath])
             IN  setState(w1, [w1.state EXCEPT !.audioStatus = "ready"])
        ELSE setState(w0, [w0.state EXCEPT !.audioStatus = "notcreated"])

(* a reset that keeps the local track *)
resetAudioStateKeepsCache(w) ==
    IF w.state.useSystemVoice
    THEN setState(w, [w.state EXCEPT !.audioStatus = "ready", !.audioError = Undefined])
    ELSE setState(w, [w.state EXCEPT !.s3Path = Undefined,
                                     !.audioStatus = "notcreated", !.audioError = Undefined])

resetAudioState(w) ==
    IF w.state.useSystemVoice
    THEN setState(w, [w.state EXCEPT !.audioStatus = "ready", !.audioError = Undefined])
    ELSE setState(w, [w.state EXCEPT !.s3Path = Undefined, !.cachePath = Undefined,
                                     !.audioStatus = "notcreated", !.audioError = Undefined])

updateS3Path(w, path) ==
    setState(w, [w.state EXCEPT !.s3Path = path, !.audioStatus = "ready"])

(* a subscription that waits for the next mutation *)
subscribeSilently(w, listener) ==
    [w EXCEPT !.stateListeners = @ \cup {listener}]

subscribe(w, listener) ==
    [w EXCEPT !.stateListeners = @ \cup {listener},
              !.missed = @ \ {listener},
              !.notified = Called(w, {listener}, w.state),
              !.calls = Calls(w, {listener}, w.state)]

unsubscribe(w, listener) ==
    [w EXCEPT !.stateListeners = @ \ {listener},
              !.missed = @ \ {listener}]

(* The side record artifact_stories.json of one artifact: an array with one *)
(* entry per story, whose story_audio is "" (0 here) or the file name       *)
(* story_audio_<n>.mp3 (n here).  Several managers, one per story, update   *)
(* it through updateArtifactStoriesJson, lines 1378-1493.                   *)

StoryIndices == 0..(MaxStories - 1)
Writers == 1..MaxWriters

EmptyStories == [i \in StoryIndices |-> 0]

(* audioFilename, line 410 *)
AudioFilename(storyIndex) == storyIndex + 1

(* config.artifactDescription.stories: the stories as the view loaded them, *)
(* before any of the managers stored a track                                *)
DescriptionStories == EmptyStories

IdleWriter == [phase |-> "idle", storyIndex |-> 0, copy |-> EmptyStories,
               fallback |-> FALSE, put |-> FALSE]

NoRecord == [stored |-> EmptyStories, writers |-> [m \in Writers |-> IdleWriter]]

(* the call: enhancedStorage.get(jsonPath) is issued, line 1385 *)
updateArtifactStoriesJson(r, m, storyIndex) ==
    [r EXCEPT !.writers[m] = [IdleWriter EXCEPT !.phase = "get", !.storyIndex = storyIndex]]

(* the get settles.  Resolved and parsed, lines 1389-1432: the array that   *)
(* was read, with this story's entry set.  Rejected or not parsed, lines    *)
(* 1446-1474: the stories of the description, with this story's entry set.  *)
(* The put of the array is issued.                                          *)
getDone(r, m, ok) ==
    LET i == r.writers[m].storyIndex
        storiesArray == IF ok THEN r.stored ELSE DescriptionStories
    IN  [r EXCEPT !.writers[m].phase = "put",
                  !.writers[m].fallback = ~ok,
                  !.writers[m].copy = [storiesArray EXCEPT ![i] = AudioFilename(i)]]

(* the put of the array read has rejected: the catch of lines 1446-1474    *)
(* builds the array from the description and puts that                      *)
putAgain(r, m) ==
    LET i == r.writers[m].storyIndex
    IN  [r EXCEPT !.writers[m].fallback = TRUE,
                  !.writers[m].copy = [DescriptionStories EXCEPT ![i] = AudioFilename(i)]]

(* a put that sets one entry of the stored array *)
putDoneMerging(r, m, ok) ==
    LET i == r.writers[m].storyIndex
    IN  IF ok THEN [r EXCEPT !.stored[i] = AudioFilename(i),
                             !.writers[m].phase = "done", !.writers[m].put = TRUE]
        ELSE IF ~r.writers[m].fallback THEN putAgain(r, m)
        ELSE [r EXCEPT !.writers[m].phase = "done"]

(* enhancedStorage.put(jsonPath, ...) settles, lines 1435-1441 and          *)
(* 1477-1483: the object is replaced by the array the manager sent.  When   *)
(* the put of the array read rejects, the catch at 1446 takes it as a       *)
(* failed read; when the put of the re-created array rejects, the call ends *)
(* (lines 1485-1487).                                                       *)
putDone(r, m, ok) ==
    IF ok THEN [r EXCEPT !.stored = r.writers[m].copy,
                         !.writers[m].phase = "done", !.writers[m].put = TRUE]
    ELSE IF ~r.writers[m].fallback THEN putAgain(r, m)
    ELSE [r EXCEPT !.writers[m].phase = "done"]

----------------------------------------------------------------------------
(* the state the constructor builds, lines 85-95 *)
InitialState(voice) ==
    [ isPlaying |-> FALSE, currentChunkIndex |-> 0, chunks |-> << >>,
      cachePath |-> Undefined, s3Path |-> Undefined,
      audioStatus |-> IF voice = "system" THEN "ready" ELSE "notcreated",
      audioError |-> Undefined,
      useSystemVoice |-> (voice = "system") ]

(* What StoryView displays, lines 39-51 (isPlaying, audioStatus,            *)
(* hasAudioFile), and the values of the render in which the callback of     *)
(* lines 194-220 was made, which are the ones the callback compares with.   *)
(* toggling: a handleTogglePlayback is awaiting manager.togglePlayback.     *)
NoShown == [ isPlaying |-> FALSE, audioStatus |-> "notcreated", hasAudioFile |-> FALSE,
             subscribed |-> FALSE, toggling |-> FALSE,
             seenIsPlaying |-> FALSE, seenAudioStatus |-> "notcreated",
             seenSystemVoice |-> FALSE, seenHasAudioFile |-> FALSE ]

(* StoryView before it has made a manager: audioManagersRef.current is      *)
(* null and hasAudioFile is false.  The other fields are history: the       *)
(* number of voice switches, hasAudioFile and whether a premium track was   *)
(* playing when the last one was made, whether it left nothing playing,     *)
(* and what the first play afterwards started.                              *)
NoView == [ mounted |-> FALSE, storyAudio |-> FALSE, hasAudioFile |-> FALSE,
            check |-> FALSE, recheck |-> FALSE, staleCheck |-> FALSE,
            switches |-> 0, hafBefore |-> FALSE, wasPlaying |-> FALSE,
            trackStopped |-> FALSE, nextPlay |-> "none" ]

InitManager ==
    /\ voiceId \in {"system", "premium"}
    /\ state = InitialState(voiceId)
    /\ isDestroyed = FALSE
    /\ manualStop = FALSE
    /\ currentAudioElement = 0
    /\ speechUtterance = FALSE
    /\ stateListeners = {}
    /\ elems = [e \in Elems |-> FreeElem]
    /\ speaking = FALSE
    /\ uttLate = 0
    /\ syncTimers = 0
    /\ stopTimers = 0
    /\ initPending = 0
    /\ s3Inflight = 0
    /\ jobs = [j \in JobIds |-> FreeJob]
    /\ priorListeners = {}
    /\ lateNotified = {}
    /\ stopPlay = FALSE
    /\ foundNoSource = FALSE
    /\ missed = {}
    /\ notified = NotNotified
    /\ rejected = FALSE
    /\ stopWindow = 0

Init ==
    /\ InitManager
    /\ chunking = NoChunking
    /\ view = NoView
    /\ sideRecord = NoRecord
    /\ shown = NoShown
    /\ syncWaits = << >>

(* Public calls *)

Play(forceUseFile) ==
    /\ forceUseFile \in BOOLEAN
    /\ Commit(Collect(play(World, forceUseFile)))

Stop ==
    /\ stopTimers < MaxStopTimers
    /\ Commit(Collect(stop(World)))

(* stop() called while the 300 ms timer of an earlier stop() is pending *)
StopAgain ==
    /\ stopTimers \in MaxStopTimers..(MaxStopTimers + MaxOverlap - 1)
    /\ \E v \in {Collect(stop(World))} :
           Bounded(v, MaxStopTimers + MaxOverlap) /\ Assign(v)
    /\ UNCHANGED << chunking, view, sideRecord, shown, syncWaits >>

TogglePlayback(forceUseFile) ==
    /\ forceUseFile \in BOOLEAN
    /\ Commit(Collect(togglePlayback(World, forceUseFile)))

(* stop() and then play() in the same turn, nothing in between *)
StopThenPlay(forceUseFile) ==
    /\ stopTimers < MaxStopTimers
    /\ Commit(Collect([play(Collect(stop(World)), forceUseFile) EXCEPT !.stopPlay = TRUE]))

Initialize(text) ==
    /\ text \in Texts
    /\ Commit(initialize(World, text))

ResetAudioState ==
    /\ TRUE
    /\ Commit(resetAudioState(World))

UpdateS3Path ==
    /\ TRUE
    /\ Commit(updateS3Path(World, AudioPath))

Subscribe(o) ==
    /\ o \notin stateListeners
    /\ Commit(subscribe(World, o))

Unsubscribe(o) ==
    /\ o \in stateListeners
    /\ Commit(unsubscribe(World, o))

Destroy ==
    /\ ~isDestroyed
    /\ Commit(Collect(destroy(World)))

CreateAudio ==
    /\ (~state.useSystemVoice /\ state.audioStatus \notin {"creating", "ready"}) => HasFreeJob(World)
    /\ Commit(createAudio(World))

(* Completions: awaits, timers, media and speech events *)

ChunkDone(j, i, ok) ==
    /\ jobs[j].phase = "synth"
    /\ i < jobs[j].n
    /\ jobs[j].res[i + 1] = "wait"
    /\ Commit(chunkDone(World, j, i, ok))

RenderDone(j) ==
    /\ jobs[j].phase = "render"
    /\ Commit(renderDone(World, j))

UploadDone(j, ok) ==
    /\ jobs[j].phase = "upload"
    /\ Commit(uploadDone(World, j, ok))

VerifyDone(j, ok) ==
    /\ jobs[j].phase = "verify"
    /\ Commit(verifyDone(World, j, ok))

AltUploadDone(j, ok) ==
    /\ jobs[j].phase = "altUpload"
    /\ Commit(altUploadDone(World, j, ok))

FetchFailed(j) ==
    /\ jobs[j].phase \in {"upload", "altUpload"}
    /\ Commit(fetchFailed(World, j))

InitializeDone(exists) ==
    /\ initPending > 0
    /\ Commit(initializeDone(World, exists))

PlayFromS3Done(outcome) ==
    /\ s3Inflight > 0
    /\ Commit(Collect(playFromS3Done(World, outcome)))

LoadDone(e) ==
    /\ elems[e].st = "loading"
    /\ Commit(Collect(loadDone(World, e)))

PlayResolved(e) ==
    /\ elems[e].st = "starting"
    /\ Commit(playResolved(World, e))

PlayRejected(e) ==
    /\ elems[e].st = "starting"
    /\ Commit(Collect(playRejected(World, e)))

ElemError(e) ==
    /\ elems[e].st \in {"loading", "starting", "playing"}
    /\ ~elems[e].err
    /\ Commit(Collect(elemError(World, e)))

ElemEnded(e) ==
    /\ elems[e].st = "playing"
    /\ Commit(Collect(elemEnded(World, e)))

PauseEvent(e) ==
    /\ elems[e].pauseEv
    /\ Commit(Collect(pauseEvent(World, e)))

SpeechEnded ==
    /\ speaking
    /\ Commit(utteranceOnEnd([World EXCEPT !.speaking = FALSE]))

SpeechFailed ==
    /\ speaking
    /\ Commit(utteranceOnError([World EXCEPT !.speaking = FALSE]))

CancelledUtteranceEvent(kind) ==
    /\ uttLate > 0
    /\ LET w == [World EXCEPT !.uttLate = @ - 1, !.stopWindow = 0] IN
       Commit(IF kind = "end" THEN utteranceOnEnd(w) ELSE utteranceOnError(w))

SyncTimer ==
    /\ syncTimers > 0
    /\ Commit(syncTimer([World EXCEPT !.syncTimers = @ - 1]))

StopTimer ==
    /\ stopTimers > 0
    /\ Commit(stopTimer(World))

PlaybackCalls ==
    \/ \E f \in BOOLEAN : Play(f)
    \/ Stop
    \/ \E f \in BOOLEAN : TogglePlayback(f)
    \/ \E f \in BOOLEAN : StopThenPlay(f)

PlaybackEvents ==
    \/ \E r \in {"ok", "notfound", "failed"} : PlayFromS3Done(r)
    \/ \E e \in Elems : LoadDone(e)
    \/ \E e \in Elems : PlayResolved(e)
    \/ \E e \in Elems : PlayRejected(e)
    \/ \E e \in Elems : ElemError(e)
    \/ \E e \in Elems : ElemEnded(e)
    \/ \E e \in Elems : PauseEvent(e)
    \/ SpeechEnded
    \/ SpeechFailed
    \/ \E k \in {"end", "error"} : CancelledUtteranceEvent(k)
    \/ SyncTimer
    \/ StopTimer

JobCalls ==
    \/ \E t \in Texts : Initialize(t)
    \/ CreateAudio

JobEvents ==
    \/ \E x \in BOOLEAN : InitializeDone(x)
    \/ \E j \in JobIds, i \in 0..(MaxUnits - 1), ok \in BOOLEAN : ChunkDone(j, i, ok)
    \/ \E j \in JobIds : RenderDone(j)
    \/ \E j \in JobIds, ok \in BOOLEAN : UploadDone(j, ok)
    \/ \E j \in JobIds, ok \in BOOLEAN : VerifyDone(j, ok)
    \/ \E j \in JobIds, ok \in BOOLEAN : AltUploadDone(j, ok)
    \/ \E j \in JobIds : FetchFailed(j)

PathCalls ==
    \/ ResetAudioState
    \/ UpdateS3Path

ObserverCalls ==
    \/ \E o \in Observers : Subscribe(o)
    \/ \E o \in Observers : Unsubscribe(o)
    \/ Destroy

Next ==
    \/ PlaybackCalls
    \/ PlaybackEvents
    \/ JobCalls
    \/ JobEvents
    \/ PathCalls
    \/ ObserverCalls

Spec == Init /\ [][Next]_vars

(* The job side alone: synthesis, persistence, the paths, the observers *)
NextJob ==
    \/ JobCalls
    \/ JobEvents
    \/ PathCalls
    \/ ObserverCalls
    \/ StopTimer

SpecJob == Init /\ [][NextJob]_vars

(* A job, its persistence and the playback of its track *)
NextPersist ==
    \/ JobCalls
    \/ JobEvents
    \/ \E f \in BOOLEAN : Play(f)
    \/ \E e \in Elems : LoadDone(e)
    \/ \E e \in Elems : PlayResolved(e)
    \/ \E e \in Elems : ElemEnded(e)
    \/ \E o \in Observers : Subscribe(o)

SpecPersist == Init /\ [][NextPersist]_vars

(* The on-device voice: its calls, the engine's events and the timers.  A   *)
(* timer that is set runs out.                                              *)
NextVoice ==
    \/ \E f \in BOOLEAN : Play(f)
    \/ Stop
    \/ \E f \in BOOLEAN : TogglePlayback(f)
    \/ \E f \in BOOLEAN : StopThenPlay(f)
    \/ SpeechEnded
    \/ SpeechFailed
    \/ \E k \in {"end", "error"} : CancelledUtteranceEvent(k)
    \/ SyncTimer
    \/ StopTimer
    \/ ObserverCalls

SpecVoice == Init /\ [][NextVoice]_vars /\ WF_vars(SyncTimer)

(* The side record and the managers that update it *)
UpdateArtifactStoriesJson(m, storyIndex) ==
    /\ sideRecord.writers[m].phase \in {"idle", "done"}
    /\ sideRecord' = updateArtifactStoriesJson(sideRecord, m, storyIndex)
    /\ UNCHANGED << managerVars, chunking, view, shown, syncWaits >>

GetDone(m, ok) ==
    /\ sideRecord.writers[m].phase = "get"
    /\ sideRecord' = getDone(sideRecord, m, ok)
    /\ UNCHANGED << managerVars, chunking, view, shown, syncWaits >>

PutDone(m, ok) ==
    /\ sideRecord.writers[m].phase = "put"
    /\ sideRecord' = putDone(sideRecord, m, ok)
    /\ UNCHANGED << managerVars, chunking, view, shown, syncWaits >>

NextRecord ==
    \/ \E m \in Writers, i \in StoryIndices : UpdateArtifactStoriesJson(m, i)
    \/ \E m \in Writers, ok \in BOOLEAN : GetDone(m, ok)
    \/ \E m \in Writers, ok \in BOOLEAN : PutDone(m, ok)

SpecRecord == Init /\ [][NextRecord]_vars

(* stop() and the on-device voice, with stop() calls that overlap: a second  *)
(* stop() within 300 ms of the first                                        *)
NextStop ==
    \/ \E f \in BOOLEAN : Play(f)
    \/ Stop
    \/ StopAgain
    \/ SpeechEnded
    \/ SpeechFailed
    \/ \E k \in {"end", "error"} : CancelledUtteranceEvent(k)
    \/ SyncTimer
    \/ StopTimer
    \/ ObserverCalls

SpecStop == Init /\ [][NextStop]_vars

(* Synthesis and assembly.  Every synthesis call settles, and the rendering *)
(* of every track ends: each call and each rendering is a promise of its   *)
(* own, so none waits for the calls of another job.                        *)
SynthesisSettles(j, i) == \E ok \in BOOLEAN : ChunkDone(j, i, ok)
RenderingEnds(j) == RenderDone(j)

NextSynthesis ==
    \/ JobCalls
    \/ \E x \in BOOLEAN : InitializeDone(x)
    \/ \E j \in JobIds, i \in 0..(MaxUnits - 1) : SynthesisSettles(j, i)
    \/ \E j \in JobIds : RenderingEnds(j)
    \/ ResetAudioState

SpecSynthesis ==
    /\ Init /\ [][NextSynthesis]_vars
    /\ \A j \in JobIds : \A i \in 0..(MaxUnits - 1) : WF_vars(SynthesisSettles(j, i))
    /\ \A j \in JobIds : WF_vars(RenderingEnds(j))

(* The playback side alone *)
NextPlayback ==
    \/ PlaybackCalls
    \/ PlaybackEvents
    \/ PathCalls

SpecPlayback == Init /\ [][NextPlayback]_vars

(* The life of a rendered track: it is synthesized and rendered, played      *)
(* and stopped, and its playback fails; the upload stays pending             *)
NextTrack ==
    \/ JobCalls
    \/ \E x \in BOOLEAN : InitializeDone(x)
    \/ \E j \in JobIds, i \in 0..(MaxUnits - 1), ok \in BOOLEAN : ChunkDone(j, i, ok)
    \/ \E j \in JobIds : RenderDone(j)
    \/ PathCalls
    \/ \E f \in BOOLEAN : Play(f)
    \/ Stop
    \/ \E e \in Elems : LoadDone(e)
    \/ \E e \in Elems : PlayResolved(e)
    \/ \E e \in Elems : PlayRejected(e)
    \/ \E e \in Elems : ElemError(e)
    \/ \E e \in Elems : PauseEvent(e)
    \/ SpeechEnded
    \/ StopTimer

SpecTrack == Init /\ [][NextTrack]_vars


(* One call at a time: the caller makes a call only when no work of an      *)
(* earlier call is pending, and plays the remote track when it is the only  *)
(* one known.  Every pending completion is eventually delivered.            *)
Quiet ==
    /\ s3Inflight = 0 /\ initPending = 0
    /\ stopTimers = 0 /\ syncTimers = 0 /\ uttLate = 0
    /\ \A e \in Elems : elems[e].st \notin {"loading", "starting"} /\ ~elems[e].pauseEv

RemoteCalls ==
    \/ Quiet /\ UpdateS3Path
    \/ Quiet /\ ResetAudioState
    \/ Quiet /\ Stop
    \/ Quiet /\ state.cachePath = Undefined /\ state.s3Path # Undefined /\ Play(TRUE)

RemoteEvents ==
    \/ \E r \in {"ok", "notfound", "failed"} : PlayFromS3Done(r)
    \/ \E e \in Elems : LoadDone(e)
    \/ \E e \in Elems : PlayResolved(e)
    \/ \E e \in Elems : PlayRejected(e)
    \/ \E e \in Elems : ElemError(e)
    \/ \E e \in Elems : ElemEnded(e)
    \/ \E e \in Elems : PauseEvent(e)
    \/ StopTimer

(* The chunkers alone: initialize's split of a text (lines 102-110), then   *)
(* createAudio's re-chunking of the pieces it stored (lines 181-190).       *)
InitChunker ==
    /\ InitManager
    /\ \E text \in ChunkerTexts : chunking = [NoChunking EXCEPT !.stage = "text", !.text = text]
    /\ view = NoView
    /\ sideRecord = NoRecord
    /\ shown = NoShown
    /\ syncWaits = << >>

SplitText ==
    /\ chunking.stage = "text"
    /\ chunking' = [chunking EXCEPT !.stage = "paragraphs",
                                    !.paragraphs = splitTextIntoParagraphs(chunking.text)]
    /\ UNCHANGED << managerVars, view, sideRecord, shown, syncWaits >>

ReChunk ==
    /\ chunking.stage = "paragraphs"
    /\ chunking' = [chunking EXCEPT !.stage = "units",
                                    !.units = createOptimizedChunks(chunking.paragraphs)]
    /\ UNCHANGED << managerVars, view, sideRecord, shown, syncWaits >>

NextChunker ==
    \/ SplitText
    \/ ReChunk

SpecChunker == InitChunker /\ [][NextChunker]_vars

NextRemote ==
    \/ RemoteCalls
    \/ RemoteEvents

SpecRemote == Init /\ [][NextRemote]_vars /\ WF_vars(RemoteEvents)

----------------------------------------------------------------------------
(* Playback sessions *)

PlayingElems == {e \in Elems : elems[e].st = "playing"}
AudibleElems == {e \in PlayingElems : ~elems[e].muted}
ActiveSessions == Cardinality(PlayingElems) + (IF speaking THEN 1 ELSE 0)
AudibleSources == Cardinality(AudibleElems) + (IF speaking THEN 1 ELSE 0)

(* C1: in every reachable state at most one playback session is active:    *)
(* at most one of a playing media element, a started buffer source (the    *)
(* manager never starts one) and a speaking or pending utterance.          *)
C1_AtMostOneSession == ActiveSessions <= 1

(* C2: once stop() has been followed at once by play(), in every later     *)
(* state at most one backend produces unmuted audio.                       *)
C2_StopPlayOneAudible == stopPlay => AudibleSources <= 1

(* stop() then play() has happened, the new session's element plays, and   *)
(* an element of an earlier session, stopped while it loaded, plays muted  *)
C2_Witness ==
    /\ stopPlay
    /\ \E e \in AudibleElems : currentAudioElement = e
    /\ \E e \in PlayingElems : elems[e].muted
----------------------------------------------------------------------------
(* The state store *)

(* C3: in every reachable state audioStatus = "ready" implies that          *)
(* useSystemVoice is true or that cachePath or s3Path is set.               *)
C3_ReadyHasSource ==
    state.audioStatus = "ready" =>
        \/ state.useSystemVoice
        \/ state.cachePath # Undefined
        \/ state.s3Path # Undefined

----------------------------------------------------------------------------
(* Observers and destroy() *)

(* C4: once destroy() has been called, setState notifies no observer that   *)
(* was subscribed when it was called, whatever completes afterwards.        *)
C4_NoLateNotification == lateNotified = {}

(* destroy() was called with an observer subscribed and synthesis calls in  *)
(* flight, and since then the job has stored its state up to the end        *)
C4_Witness ==
    /\ priorListeners # {}
    /\ \E j \in JobIds : jobs[j].dSynth /\ jobs[j].phase = "done" /\ jobs[j].uploaded

(* C5: a job whose synthesis was in flight when destroy() was called has    *)
(* its results discarded: no observer is notified, no upload of its track   *)
(* is made and updateStoryAudio is not invoked for it.                      *)
C5_DestroyedJobDiscarded ==
    /\ lateNotified = {}
    /\ \A j \in JobIds : jobs[j].dSynth => ~jobs[j].uploaded /\ jobs[j].cb = 0

----------------------------------------------------------------------------
(* createAudio() and persistence *)

Resolved(job) == job.phase \in {"upload", "verify", "altUpload", "done"}

(* C6: when at least one unit was synthesized, createAudio() resolves with  *)
(* audioStatus = "ready" and cachePath set, and it has resolved before any  *)
(* upload of the job completes.                                             *)
C6_ReadyBeforeUpload ==
    \A j \in JobIds :
        /\ (Resolved(jobs[j]) /\ Successful(jobs[j]) > 0) =>
               jobs[j].endStatus = "ready" /\ jobs[j].endCache
        /\ jobs[j].uploaded => Resolved(jobs[j])

(* C7, as stated: a job whose upload succeeded has invoked updateStoryAudio *)
(* exactly once when its persistence has ended, and never more than once.   *)
C7_UploadedCalledOnce ==
    \A j \in JobIds :
        /\ jobs[j].cb <= 1
        /\ (jobs[j].phase = "done" /\ jobs[j].uploaded) => jobs[j].cb = 1

(* C7, amended: updateStoryAudio is invoked at most once for a job, never   *)
(* without s3Path having been set by an upload of the job, and when         *)
(* persistence has ended it was invoked exactly once if the verification    *)
(* of the primary upload succeeded or the alternate upload succeeded, and   *)
(* not at all otherwise.                                                    *)
C7_CalledOncePerJob ==
    \A j \in JobIds :
        /\ jobs[j].cb <= 1
        /\ jobs[j].cb > 0 => jobs[j].uploaded
        /\ jobs[j].phase = "done" =>
               jobs[j].cb = IF jobs[j].verified \/ (jobs[j].alt /\ jobs[j].uploaded)
                            THEN 1 ELSE 0

(* the primary upload succeeded, the verification did not, and persistence  *)
(* ended without invoking updateStoryAudio                                   *)
C7_Witness ==
    \E j \in JobIds :
        /\ jobs[j].phase = "done"
        /\ jobs[j].uploaded /\ ~jobs[j].alt /\ ~jobs[j].verified
        /\ jobs[j].cb = 0

(* C8: updateStoryAudio is invoked for a job only after its uploaded        *)
(* object has been verified retrievable.                                    *)
C8_CallbackOnlyVerified ==
    \A j \in JobIds : jobs[j].cb > 0 => jobs[j].verified

(* C9: when synthesis has failed for every unit of a job, createAudio()     *)
(* has ended with audioStatus = "error" and an audioError, the job has not  *)
(* set cachePath and it has started no upload.                              *)
C9_AllFailedIsError ==
    \A j \in JobIds :
        (jobs[j].phase # "free" /\ Settled(jobs[j]) /\ Successful(jobs[j]) = 0) =>
            /\ jobs[j].phase = "done"
            /\ jobs[j].endStatus = "error"
            /\ jobs[j].endError
            /\ ~jobs[j].saved
            /\ ~jobs[j].alt /\ ~jobs[j].uploaded /\ jobs[j].cb = 0

(* a job of two units has ended, both of its synthesis calls having failed  *)
C9_Witness ==
    \E j \in JobIds :
        /\ jobs[j].phase = "done"
        /\ jobs[j].n = 2
        /\ \A i \in 1..jobs[j].n : jobs[j].res[i] = "fail"

(* C10: a job of which at least one unit was synthesized ends with          *)
(* audioStatus = "ready", never "error".                                    *)
C10_PartialFailureIsReady ==
    \A j \in JobIds :
        (Resolved(jobs[j]) /\ Successful(jobs[j]) > 0) => jobs[j].endStatus = "ready"

(* the units of a job whose synthesis succeeded, in ascending index *)
SuccessfulUnits(job) ==
    SelectSeq([k \in 1..job.n |-> k - 1], LAMBDA i : job.res[i + 1] = "ok")

(* C11: the track a job has stored is the concatenation, in ascending unit  *)
(* index, of the audio of exactly its successfully synthesized units,       *)
(* whatever order the synthesis calls completed in.                         *)
C11_TrackIsSuccessfulUnits ==
    \A j \in JobIds : jobs[j].saved => jobs[j].track = SuccessfulUnits(jobs[j])

----------------------------------------------------------------------------
(* Selection of the backend by play() *)

(* what one step started: a media element on the local track, the fetch of  *)
(* the remote track, or an utterance                                        *)
PlayStarted ==
    IF /\ currentAudioElement' # 0
       /\ elems'[currentAudioElement'].st = "loading"
       /\ (currentAudioElement' # currentAudioElement
             \/ elems[currentAudioElement'].st # "loading")
    THEN "cachePath"
    ELSE IF s3Inflight' = s3Inflight + 1 THEN "s3Path"
    ELSE IF speaking' /\ syncTimers' = syncTimers + 1 THEN "systemVoice"
    ELSE "none"

HasCache == state.cachePath # Undefined
HasS3 == state.s3Path # Undefined

(* the precedence, read off the state play() is called in *)
PlaySelects(forceUseFile) ==
    IF state.isPlaying THEN "none"
    ELSE IF forceUseFile /\ HasCache THEN "cachePath"
    ELSE IF forceUseFile /\ HasS3 THEN "s3Path"
    ELSE IF state.useSystemVoice THEN "systemVoice"
    ELSE IF state.audioStatus = "ready" /\ HasCache THEN "cachePath"
    ELSE IF state.audioStatus = "ready" /\ HasS3 THEN "s3Path"
    ELSE "none"

C13_NoSourceIsError ==
    foundNoSource =>
        /\ state.audioStatus = "error"
        /\ state.audioError # Undefined
        /\ ~state.isPlaying

----------------------------------------------------------------------------
(* Playing the remote track *)

RemotePending ==
    \/ s3Inflight > 0
    \/ \E e \in Elems : elems[e].st \in {"loading", "starting"}

(* C14: play({forceUseFile: true}) with only s3Path known fetches the       *)
(* remote track and plays it.  The call always settles; when the fetch      *)
(* fails it leaves isPlaying = false and audioStatus = "error"; when the    *)
(* fetch and the start of the media element succeed it leaves isPlaying =   *)
(* true with the element on the fetched track as the one active session.    *)
C14_RemoteTrackPlays ==
    /\ [][\A r \in {"notfound", "failed"} :
             PlayFromS3Done(r) => ~state'.isPlaying /\ state'.audioStatus = "error"]_vars
    /\ [][\A e \in Elems :
             PlayResolved(e) =>
                 /\ state'.isPlaying
                 /\ state'.cachePath = BlobRemote
                 /\ currentAudioElement' = e
                 /\ PlayingElems' = {e} /\ ~speaking']_vars
    /\ RemotePending ~> ~RemotePending

(* the remote track, fetched by play({forceUseFile: true}), is playing *)
C14_Witness ==
    /\ state.isPlaying
    /\ state.cachePath = BlobRemote /\ state.s3Path # Undefined
    /\ currentAudioElement # 0
    /\ PlayingElems = {currentAudioElement}

----------------------------------------------------------------------------
(* StoryView (components/StoryView.tsx): the view makes one manager for its *)
(* active tab, asks the storage whether the story's audio file exists, and  *)
(* passes what it learnt to every play as forceUseFile.  When the voice     *)
(* preference changes it destroys the manager and makes a new one.  The     *)
(* manager variables are those of the view's current manager; what a        *)
(* destroyed manager still has pending acts on that manager alone and is    *)
(* not followed.                                                            *)

ViewObserver == CHOOSE o \in Observers : TRUE
StoryText == CHOOSE text \in Texts : Len(text) > 0

(* checkAudioExistence, lines 320-375: false without story_audio, else what *)
(* the HEAD requests say                                                    *)
ExistenceOutcomes == IF view.storyAudio THEN BOOLEAN ELSE {FALSE}

(* new AudioManager(config), lines 75-97, in place of a destroyed one.  The *)
(* media elements and the timers of the old manager no longer reach the     *)
(* view's manager.                                                          *)
construct(w, voice) ==
    [w EXCEPT !.voiceId = voice, !.state = InitialState(voice),
              !.isDestroyed = FALSE, !.manualStop = FALSE,
              !.currentAudioElement = 0, !.speechUtterance = FALSE,
              !.stateListeners = {},
              !.elems = [e \in Elems |-> [w.elems[e] EXCEPT !.handlers = FALSE, !.pauseEv = FALSE]],
              !.uttLate = 0, !.syncTimers = 0, !.stopTimers = 0,
              !.initPending = 0, !.s3Inflight = 0,
              !.jobs = [j \in JobIds |-> FreeJob],
              !.priorListeners = {}, !.lateNotified = {}, !.stopPlay = FALSE,
              !.missed = {}, !.stopWindow = 0]

(* initializeAudioManager up to its await, lines 187-216: the manager of    *)
(* Init is the one it constructs                                            *)
InitializeAudioManager(storyAudio) ==
    /\ ~view.mounted
    /\ view' = [view EXCEPT !.mounted = TRUE, !.storyAudio = storyAudio, !.check = TRUE]
    /\ UNCHANGED << managerVars, chunking, sideRecord, shown, syncWaits >>

(* initializeAudioManager after `await checkAudioExistence(index)`,         *)
(* lines 218-262                                                            *)
CheckAudioExistenceDone(audioExists) ==
    /\ view.check
    /\ audioExists \in ExistenceOutcomes
    /\ LET w1 == subscribe(World, ViewObserver)
       IN  CommitManager(IF audioExists /\ view.storyAudio
                         THEN updateS3Path(w1, AudioPath)
                         ELSE initialize(w1, StoryText))
    /\ view' = [view EXCEPT !.check = FALSE, !.hasAudioFile = audioExists]
    /\ UNCHANGED << chunking, sideRecord, shown, syncWaits >>

(* the same continuation when the manager it holds was destroyed meanwhile  *)
StaleCheckDone(audioExists) ==
    /\ view.staleCheck
    /\ audioExists \in ExistenceOutcomes
    /\ view' = [view EXCEPT !.staleCheck = FALSE, !.hasAudioFile = audioExists]
    /\ UNCHANGED << managerVars, chunking, sideRecord, shown, syncWaits >>

(* the effect on [activeTab, ..., useSystemVoice] after its await, lines    *)
(* 98-123                                                                   *)
TabEffectDone(audioExists) ==
    /\ view.recheck
    /\ audioExists \in ExistenceOutcomes
    /\ CommitManager(IF audioExists THEN updateS3Path(World, AudioPath)
                     ELSE IF voiceId = "system" THEN World
                     ELSE resetAudioState(World))
    /\ view' = [view EXCEPT !.recheck = FALSE, !.hasAudioFile = audioExists]
    /\ UNCHANGED << chunking, sideRecord, shown, syncWaits >>

(* handleTogglePlayback, lines 382-400 *)
HandleTogglePlayback ==
    /\ view.mounted
    /\ CommitManager(Collect(togglePlayback(World, view.hasAudioFile)))
    /\ view' = [view EXCEPT !.nextPlay = IF @ = "pending" /\ PlayStarted # "none"
                                         THEN PlayStarted ELSE @]
    /\ UNCHANGED << chunking, sideRecord, shown, syncWaits >>

(* the effect on [culturalPreferences.voice_preference], lines 72-88, and   *)
(* the start of the effect on useSystemVoice it causes.  The preference is  *)
(* changed while the manager has no load, fetch or existence check of its   *)
(* own pending.                                                             *)
SwitchVoice ==
    /\ view.mounted /\ ~view.staleCheck
    /\ view.switches < MaxSwitches
    /\ s3Inflight = 0 /\ initPending = 0
    /\ \A e \in Elems : elems[e].st \notin {"loading", "starting"}
    /\ \A j \in JobIds : jobs[j].phase \in {"free", "done"}
    /\ CommitManager(Collect(construct(destroy(World),
                                       IF voiceId = "premium" THEN "system" ELSE "premium")))
    /\ view' = [view EXCEPT !.check = TRUE, !.recheck = TRUE, !.staleCheck = view.check,
                            !.switches = @ + 1,
                            !.hafBefore = view.hasAudioFile,
                            !.wasPlaying = (voiceId = "premium" /\ state.isPlaying
                                               /\ PlayingElems # {}),
                            !.trackStopped = (PlayingElems' = {} /\ ~speaking'),
                            !.nextPlay = "pending"]
    /\ UNCHANGED << chunking, sideRecord, shown, syncWaits >>

ViewCalls ==
    \/ \E storyAudio \in BOOLEAN : InitializeAudioManager(storyAudio)
    \/ HandleTogglePlayback
    \/ SwitchVoice

ViewEvents ==
    \/ \E audioExists \in BOOLEAN : CheckAudioExistenceDone(audioExists)
    \/ \E audioExists \in BOOLEAN : StaleCheckDone(audioExists)
    \/ \E audioExists \in BOOLEAN : TabEffectDone(audioExists)

(* The view, and the completions of a playback whose media do not fail *)
NextView ==
    \/ ViewCalls
    \/ ViewEvents
    \/ \E exists \in BOOLEAN : InitializeDone(exists)
    \/ \E r \in {"ok", "notfound", "failed"} : PlayFromS3Done(r)
    \/ \E e \in Elems : LoadDone(e)
    \/ \E e \in Elems : PlayResolved(e)
    \/ \E e \in Elems : ElemEnded(e)
    \/ \E e \in Elems : PauseEvent(e)
    \/ SpeechEnded
    \/ \E kind \in {"end", "error"} : CancelledUtteranceEvent(kind)
    \/ SyncTimer
    \/ StopTimer

SpecView == Init /\ [][NextView]_vars

ViewIdle == ~view.check /\ ~view.recheck /\ ~view.staleCheck

(* C15: a switch from a premium voice to the system voice made while the    *)
(* premium track is playing stops that track, the next play from the story  *)
(* view uses the on-device voice, and hasAudioFile is after the switch what *)
(* it was before.                                                           *)
C15_SwitchUsesDeviceVoice ==
    view.wasPlaying /\ voiceId = "system" =>
        /\ view.trackStopped
        /\ view.nextPlay \in {"pending", "systemVoice"}
        /\ ViewIdle => view.hasAudioFile = view.hafBefore

----------------------------------------------------------------------------
(* The chunkers *)

Chunked == chunking.stage = "units"

(* C16: createOptimizedChunks never returns more than 4 units, and a text   *)
(* of 9000 characters yields exactly 4.                                     *)
C16_AtMostFourUnits ==
    Chunked => /\ Len(chunking.units) <= MaxUnits
               /\ TextLength(chunking.text) = 9000 => Len(chunking.units) = MaxUnits

(* C17: no unit is longer than 2900 characters, whatever the text.          *)
C17_UnitWithinLimit ==
    Chunked => \A i \in 1..Len(chunking.units) : chunking.units[i] <= MAX_CHUNK_SIZE

(* the characters of the text outside its "\n\n" separators, and those of   *)
(* the units outside the separators the re-chunking put inside them         *)
TextChars(text) == SumSeq([i \in 1..Len(text) |-> ParagraphLength(text[i])])
UnitChars(c) == SumSeq(c.units) - 2 * (Len(c.paragraphs) - Len(c.units))

(* C18: the units, joined in index order, are the text: no character of it  *)
(* is dropped by initialize's split followed by createAudio's re-chunking.  *)
C18_RoundTrip ==
    Chunked => UnitChars(chunking) = TextChars(chunking.text)

(* C19: a job with no units is not fatal: createAudio() on it does not     *)
(* end with audioStatus = "error".                                          *)
C19_EmptyJobNotFatal ==
    \A j \in JobIds :
        jobs[j].phase = "done" /\ jobs[j].n = 0 => jobs[j].endStatus # "error"

(* C20: every mutation of the state is handed to every subscribed observer *)
(* before the operation returns, so that between handlers the last snapshot *)
(* each subscribed observer received is getState(): no subscribed observer  *)
(* has missed a mutation.                                                   *)
C20_ObserversAreCurrent == missed = {}

----------------------------------------------------------------------------
(* Subscriptions *)

(* C21: subscribe(callback) calls the callback with the current state       *)
(* before it returns, and a callback that is not subscribed when a handler  *)
(* starts is not called by it.                                              *)
C21_SubscribeDeliversUnsubscribeEnds ==
    [][\A o \in Observers :
          /\ Subscribe(o) => o \in notified'.who /\ notified'.snapshot = state'
          /\ o \notin stateListeners /\ ~Subscribe(o) => o \notin notified'.who]_vars

(* an observer subscribed while a job is in synthesis has just been called  *)
(* with the state as it is                                                  *)
C21_Witness ==
    /\ state.audioStatus = "creating"
    /\ \E o \in stateListeners : o \in notified.who
    /\ notified.snapshot = state

----------------------------------------------------------------------------
(* resetAudioState *)

(* what resetAudioState leaves when the on-device voice is not in use *)
ResetState(s) ==
    [s EXCEPT !.s3Path = Undefined, !.cachePath = Undefined,
              !.audioStatus = "notcreated", !.audioError = Undefined]

(* C22 as stated: without the on-device voice resetAudioState() leaves      *)
(* audioStatus = "notcreated" with cachePath, s3Path and audioError         *)
(* cleared; with it, it leaves every field of the state as it was.          *)
C22_ResetIsNoOpForSystemVoice ==
    [][ResetAudioState =>
          state' = IF state.useSystemVoice THEN state ELSE ResetState(state)]_vars

(* C22: without the on-device voice resetAudioState() leaves audioStatus =  *)
(* "notcreated" with cachePath, s3Path and audioError cleared; with it, it  *)
(* sets audioStatus = "ready", clears audioError and leaves the other       *)
(* fields as they were.                                                     *)
C22_ResetAudioState ==
    [][ResetAudioState =>
          state' = IF state.useSystemVoice
                   THEN [state EXCEPT !.audioStatus = "ready", !.audioError = Undefined]
                   ELSE ResetState(state)]_vars

(* a premium track still playing whose paths have been reset *)
C22_Witness ==
    /\ ~state.useSystemVoice
    /\ state.isPlaying /\ PlayingElems # {}
    /\ state.cachePath = Undefined /\ state.s3Path = Undefined
    /\ state.audioStatus = "notcreated"

----------------------------------------------------------------------------
(* Errors *)

----------------------------------------------------------------------------
(* Persistence failures *)

PersistenceFailed(j) ==
    \/ UploadDone(j, FALSE)
    \/ AltUploadDone(j, FALSE)
    \/ VerifyDone(j, FALSE)
    \/ FetchFailed(j)

(* the job's persistence has ended without updateStoryAudio *)
NotPersisted(job) == job.phase = "done" /\ job.saved /\ job.cb = 0

(* C24: a failed upload, a failed alternate upload and a failed             *)
(* verification change no field of the state and call no observer:          *)
(* audioStatus, cachePath, audioError and isPlaying stay as they are.  A     *)
(* play() made afterwards, with the job's track in cachePath and            *)
(* audioStatus = "ready", starts the local track.                           *)
C24_PersistenceFailureNotFatal ==
    /\ [][\A j \in JobIds :
             PersistenceFailed(j) => state' = state /\ notified'.who = {}]_vars
    /\ [][\A f \in BOOLEAN :
             (/\ Play(f)
              /\ \E j \in JobIds : NotPersisted(jobs[j])
              /\ state.cachePath = BlobTrack /\ state.audioStatus = "ready"
              /\ ~state.isPlaying)
             => PlayStarted = "cachePath"]_vars

(* both uploads of a job have failed, and its local track is playing with   *)
(* the job still ready and without an error                                 *)
C24_Witness ==
    /\ \E j \in JobIds : NotPersisted(jobs[j]) /\ jobs[j].alt /\ ~jobs[j].uploaded
    /\ state.audioStatus = "ready" /\ state.audioError = Undefined
    /\ state.cachePath = BlobTrack
    /\ state.isPlaying /\ currentAudioElement # 0 /\ PlayingElems = {currentAudioElement}

(* C25: a job makes at most two puts of its audio object, and it makes the  *)
(* second only when no put of the job has succeeded: the second put is the  *)
(* alternate upload, started by the failure of the first.                   *)
C25_AtMostTwoPuts ==
    [][\A j \in JobIds :
          jobs'[j].puts > jobs[j].puts =>
              /\ jobs'[j].puts = jobs[j].puts + 1
              /\ jobs'[j].puts <= 2
              /\ jobs[j].puts = 1 => ~jobs[j].uploaded /\ jobs[j].phase = "altUpload"]_vars

(* a job that has put its audio object twice *)
C25_Witness == \E j \in JobIds : jobs[j].puts = 2 /\ jobs[j].alt /\ jobs[j].phase = "done"

----------------------------------------------------------------------------
(* stop() *)

(* the element has been paused and muted and its onended and onerror are    *)
(* detached (or it is gone altogether)                                      *)
Silenced(el) ==
    \/ el = FreeElem
    \/ el.st \notin {"starting", "playing"} /\ el.muted /\ ~el.handlers

(* C26: when stop() returns, isPlaying is false, the speech queue is        *)
(* cancelled, the media element that was current is paused and muted, and   *)
(* currentAudioElement and speechUtterance are cleared (currentSource is    *)
(* never assigned); a second stop() made at once leaves every field of the  *)
(* state and the cleared references as they are.                            *)
C26_StopIsCompleteAndIdempotent ==
    [][Stop =>
          LET e == currentAudioElement
              again == stop([World EXCEPT !.state = state',
                                          !.manualStop = manualStop',
                                          !.currentAudioElement = currentAudioElement',
                                          !.speechUtterance = speechUtterance',
                                          !.elems = elems',
                                          !.speaking = speaking'])
          IN  /\ ~state'.isPlaying
              /\ ~speaking'
              /\ currentAudioElement' = 0
              /\ ~speechUtterance'
              /\ e # 0 => Silenced(elems'[e])
              /\ again.state = state'
              /\ again.currentAudioElement = 0
              /\ ~again.speechUtterance
              /\ again.elems = elems']_vars

(* stop() has just torn down a playing media element (its pause event is    *)
(* queued), or has just cancelled an utterance                              *)
C26_Witness ==
    /\ manualStop /\ stopTimers > 0
    /\ ~state.isPlaying /\ currentAudioElement = 0 /\ ~speechUtterance /\ ~speaking
    /\ \E e \in Elems : elems[e].st = "dead" /\ elems[e].muted /\ elems[e].pauseEv

(* the onend of an utterance that stop() cancelled arrives while the 300 ms *)
(* timer of that stop() is pending                                          *)
EndWithinStopWindow == stopWindow > 0 /\ CancelledUtteranceEvent("end")

(* C27: the end notification of a session that stop() has stopped, arriving *)
(* before the 300 ms timer of that stop() has run out, changes no field of  *)
(* the state and calls no observer, also when another stop() was made       *)
(* less than 300 ms before that one.                                        *)
C27_EndAfterStopIsSilent ==
    [][EndWithinStopWindow => state' = state /\ notified'.who = {}]_vars

----------------------------------------------------------------------------
(* The reconciliation timer of the on-device voice *)

(* speechSynthesis.speak(utterance) has just been called *)
UtteranceStarted == speaking' /\ (~speaking \/ uttLate' = uttLate + 1)

----------------------------------------------------------------------------
(* The side record *)

(* C29: the side record is updated by read, modify, write with nothing that *)
(* holds the record in between: a put that succeeds replaces the stored     *)
(* array by the array the manager built from what it had read, whatever     *)
(* another manager has stored since.  So the update of one manager can      *)
(* overwrite the update of another (the state C29_Witness describes).       *)
C29_PutReplacesWhatWasStored ==
    [][\A m \in Writers :
          PutDone(m, TRUE) => sideRecord'.stored = sideRecord.writers[m].copy]_vars

(* two managers have read the record, set the entries of different stories  *)
(* and put it successfully, and the record is without one of the two        *)
(* references                                                               *)
C29_Witness ==
    \E m, n \in Writers :
        LET a == sideRecord.writers[m]
            b == sideRecord.writers[n]
        IN  /\ m # n /\ a.storyIndex # b.storyIndex
            /\ a.phase = "done" /\ a.put /\ ~a.fallback
            /\ b.phase = "done" /\ b.put /\ ~b.fallback
            /\ sideRecord.stored[a.storyIndex] = 0
            /\ sideRecord.stored[b.storyIndex] = AudioFilename(b.storyIndex)

----------------------------------------------------------------------------
(* Unit indices *)

(* C30: in every reachable state the units of state.chunks carry the        *)
(* indices 0..n-1 in array order, units[i].index = i, each index once,      *)
(* whatever the interleaving of initialize(), createAudio() and the         *)
(* completions of the synthesis calls.                                      *)
C30_IndicesAreContiguous ==
    \A i \in 1..Len(state.chunks) : state.chunks[i].index = i - 1

----------------------------------------------------------------------------
(* The synthesis calls of a job *)

Unsettled(chunks) ==
    \E i \in 1..Len(chunks) : chunks[i].status \in {"pending", "processing"}

(* the job's Promise.allSettled has resolved in this step *)
AllSettledNow(j) == jobs[j].phase = "synth" /\ jobs'[j].phase # "synth"

(* C31: createAudio() issues one synthesis call per unit, all in the same    *)
(* turn and none of them twice, and goes on only when every call has         *)
(* settled; at that moment no unit of state.chunks is 'pending' or           *)
(* 'processing'.                                                             *)
C31_AssemblyAfterEveryUnitSettled ==
    [][\A j \in JobIds :
          /\ (jobs[j].phase # "synth" /\ jobs'[j].phase = "synth") =>
                 /\ jobs'[j].n = Len(state'.chunks)
                 /\ \A i \in 1..jobs'[j].n : jobs'[j].res[i] = "wait"
          /\ AllSettledNow(j) => Settled(jobs'[j]) /\ ~Unsettled(state'.chunks)]_vars

----------------------------------------------------------------------------
(* The guard of createAudio() *)

(* C32: createAudio() called with a premium voice while audioStatus is      *)
(* 'creating' or 'ready' starts no synthesis call, changes no field of the  *)
(* state and calls no observer; called with the on-device voice it starts   *)
(* no synthesis call and sets audioStatus to 'ready', the other fields      *)
(* staying as they are.  (With the on-device voice audioStatus is never     *)
(* 'creating'.)                                                             *)
C32_CreateAudioDeclines ==
    /\ [](~state.useSystemVoice /\ state.audioStatus \in {"creating", "ready"}
            => createAudio(World) = World)
    /\ [](state.useSystemVoice
            => /\ state.audioStatus # "creating"
               /\ createAudio(World).jobs = jobs
               /\ createAudio(World).state = [state EXCEPT !.audioStatus = "ready"])
    /\ [][CreateAudio /\ (state.useSystemVoice \/ state.audioStatus \in {"creating", "ready"})
            => jobs' = jobs /\ state' = [state EXCEPT !.audioStatus =
                                 IF state.useSystemVoice THEN "ready" ELSE @]]_vars

(* a job is being synthesized: createAudio() called now declines *)
C32_Witness ==
    /\ ~state.useSystemVoice /\ state.audioStatus = "creating"
    /\ \E j \in JobIds : jobs[j].phase = "synth" /\ \E i \in 1..jobs[j].n : jobs[j].res[i] = "wait"
    /\ createAudio(World) = World

----------------------------------------------------------------------------
(* Termination of a job *)

(* createAudio() has not resolved *)
InFlight(job) == job.phase \in {"synth", "render"}

(* C33: when every synthesis call settles, a job that has been started      *)
(* resolves, and a manager whose audioStatus is 'creating' comes to          *)
(* audioStatus 'ready' or 'error'.                                          *)
C33_JobLeavesCreating ==
    /\ \A j \in JobIds : InFlight(jobs[j]) ~> ~InFlight(jobs[j])
    /\ (state.audioStatus = "creating") ~> (state.audioStatus \in {"ready", "error"})

(* a job of several units has resolved with a track, and the manager is     *)
(* 'ready'                                                                  *)
C33_Witness ==
    \E j \in JobIds :
        /\ jobs[j].n > 1 /\ Settled(jobs[j]) /\ jobs[j].phase = "upload"
        /\ jobs[j].endStatus = "ready" /\ state.audioStatus = "ready"

----------------------------------------------------------------------------
(* initialize() from its call to its end *)

(* initialize(text) run to its end with nothing in between, lines 102-151: *)
(* the system voice returns at once, a premium voice after the existence   *)
(* check                                                                    *)
initializeResolved(w, text, exists) ==
    IF w.voiceId = "system"
    THEN initialize(w, text)
    ELSE initializeDone(initialize(w, text), exists)

(* C34: when initialize(text) resolves with nothing interleaved, a premium  *)
(* voice is 'ready' exactly when the existence check confirmed the object,  *)
(* and then s3Path is the deterministic key; otherwise it is 'notcreated'    *)
(* and s3Path is unset.  The system voice is 'ready' at once and starts no   *)
(* remote check.                                                            *)
C34_InitializeResolves ==
    \A text \in Texts, exists \in BOOLEAN :
        LET r == initializeResolved(World, text, exists)
        IN  IF voiceId = "system"
            THEN /\ r.state.audioStatus = "ready"
                 /\ initialize(World, text).initPending = initPending
            ELSE /\ r.state.audioStatus = "ready" <=> exists
                 /\ exists => r.state.s3Path = AudioPath
                 /\ ~exists => r.state.audioStatus = "notcreated" /\ r.state.s3Path = Undefined

----------------------------------------------------------------------------
(* One job at a time *)

(* createAudio() returns at lines 158-171 without starting a job *)
Declines(w) == w.state.useSystemVoice \/ w.state.audioStatus \in {"creating", "ready"}

(* C35: at most one job is in flight; while a job is in flight audioStatus  *)
(* is 'creating', and a further createAudio() starts no synthesis.          *)
C35_OneJobInFlight ==
    /\ Cardinality({j \in JobIds : InFlight(jobs[j])}) <= 1
    /\ \A j \in JobIds : InFlight(jobs[j]) => state.audioStatus = "creating" /\ Declines(World)

----------------------------------------------------------------------------
(* A play() that is stopped while it awaits *)

(* playFromCache goes on after its awaits, lines 808-838: the load ends    *)
(* and the promise of audio.play() resolves                                *)
playGoesOn(w, e) ==
    LET w1 == IF e \in Elems /\ w.elems[e].st = "loading" THEN loadDone(w, e) ELSE w
    IN  IF e \in Elems /\ w1.elems[e].st = "starting" THEN playResolved(w1, e) ELSE w1

(* playFromS3 goes on after its download, lines 1199-1217, and then        *)
(* playFromCache after its awaits                                          *)
downloadGoesOn(w) ==
    LET w1 == playFromS3Done(w, "ok")
    IN  playGoesOn(w1, w1.currentAudioElement)

(* C36: when stop() or destroy() is called while a play() call is awaiting *)
(* (the download, the load of the element) and no play() follows, the      *)
(* awaited play starts no backend and isPlaying stays false.               *)
C36_StopCancelsPendingPlay ==
    /\ \A e \in Elems :
           currentAudioElement = e /\ elems[e].st = "loading" =>
               \A w \in {stop(World), destroy(World)} :
                   /\ ~playGoesOn(w, e).state.isPlaying
                   /\ playGoesOn(w, e).elems[e].st # "playing"
    /\ s3Inflight > 0 =>
           \A w \in {stop(World), destroy(World)} :
               /\ ~downloadGoesOn(w).state.isPlaying
               /\ \A e \in Elems : downloadGoesOn(w).elems[e].st = "playing" => elems[e].st = "playing"

----------------------------------------------------------------------------
(* isPlaying and the element in use *)

(* the element of the current session is playing and can be heard *)
CurrentTrackPlaying ==
    /\ currentAudioElement \in Elems
    /\ elems[currentAudioElement].st = "playing"
    /\ ~elems[currentAudioElement].muted

(* C37: whenever the track of the current session is audibly playing,      *)
(* isPlaying is true; no late event of an earlier session (the 500 ms       *)
(* timer, an utterance's end or error, a stopped element's pause event)     *)
(* sets it to false meanwhile.                                              *)
C37_IsPlayingAgreesWithTrack == CurrentTrackPlaying => state.isPlaying

----------------------------------------------------------------------------
(* The two timers in the order they run out *)

(* stop() sets a timer of 300 ms (lines 885-887) and playWithSystemVoice   *)
(* one of 500 ms (lines 722-734).  A 500 ms timer runs out after every     *)
(* 300 ms timer that was set before it, and after the 500 ms timers set    *)
(* before it.                                                              *)
CommitInOrder(w) ==
    /\ CommitManager(w)
    /\ syncWaits' = IF w.syncTimers > syncTimers THEN Append(syncWaits, w.stopTimers)
                    ELSE syncWaits
    /\ UNCHANGED << chunking, view, sideRecord, shown >>

PlayInOrder(forceUseFile) ==
    /\ forceUseFile \in BOOLEAN
    /\ CommitInOrder(Collect(play(World, forceUseFile)))

TogglePlaybackInOrder(forceUseFile) ==
    /\ forceUseFile \in BOOLEAN
    /\ CommitInOrder(Collect(togglePlayback(World, forceUseFile)))

StopThenPlayInOrder(forceUseFile) ==
    /\ stopTimers < MaxStopTimers
    /\ CommitInOrder(Collect(play(Collect(stop(World)), forceUseFile)))

StopTimerInOrder ==
    /\ stopTimers > 0
    /\ CommitManager(stopTimer(World))
    /\ syncWaits' = [i \in DOMAIN syncWaits |-> IF syncWaits[i] > 0 THEN syncWaits[i] - 1 ELSE 0]
    /\ UNCHANGED << chunking, view, sideRecord, shown >>

SyncTimerInOrder ==
    /\ syncTimers > 0
    /\ syncWaits # << >>
    /\ Head(syncWaits) = 0
    /\ CommitManager(syncTimer([World EXCEPT !.syncTimers = @ - 1]))
    /\ syncWaits' = Tail(syncWaits)
    /\ UNCHANGED << chunking, view, sideRecord, shown >>

(* the events of the elements and of the speech engine *)
SessionEvents ==
    \/ \E r \in {"ok", "notfound", "failed"} : PlayFromS3Done(r)
    \/ \E e \in Elems : LoadDone(e)
    \/ \E e \in Elems : PlayResolved(e)
    \/ \E e \in Elems : PlayRejected(e)
    \/ \E e \in Elems : ElemError(e)
    \/ \E e \in Elems : ElemEnded(e)
    \/ SpeechEnded
    \/ SpeechFailed
    \/ \E k \in {"end", "error"} : CancelledUtteranceEvent(k)

QueuedPauseEvent == \E e \in Elems : PauseEvent(e)

NextEnd ==
    \/ \E f \in BOOLEAN : PlayInOrder(f)
    \/ \E f \in BOOLEAN : TogglePlaybackInOrder(f)
    \/ \E f \in BOOLEAN : StopThenPlayInOrder(f)
    \/ Stop
    \/ PathCalls
    \/ SessionEvents
    \/ QueuedPauseEvent
    \/ StopTimerInOrder
    \/ SyncTimerInOrder

(* a timer that is set runs out, and a queued pause event is delivered *)
SpecEnd ==
    /\ Init /\ [][NextEnd]_vars
    /\ WF_vars(StopTimerInOrder) /\ WF_vars(SyncTimerInOrder) /\ WF_vars(QueuedPauseEvent)

(* no session is playing or on its way to play *)
NoSession ==
    /\ ~speaking
    /\ s3Inflight = 0
    /\ \A e \in Elems : elems[e].st \notin {"loading", "starting", "playing"}

(* the end event of the utterance that is speaking, lines 689-699 *)
speechEnded(w) == utteranceOnEnd([w EXCEPT !.speaking = FALSE])

(* C38: a session that ends naturally leads to isPlaying = false, for each *)
(* backend, also when it was started while the manual-stop flag of an      *)
(* earlier stop() was still set: the end of an element sets isPlaying to   *)
(* false at once; the end of an utterance does so, or the 500 ms timer of  *)
(* the utterance is still pending and sets it when it runs out (unless the *)
(* next session has started by then).                                      *)
C38_EndLeadsToNotPlaying ==
    /\ [](\A e \in Elems : elems[e].st = "playing" => ~elemEnded(World, e).state.isPlaying)
    /\ [](speaking /\ speechEnded(World).state.isPlaying => syncTimers > 0)
    /\ (NoSession /\ state.isPlaying /\ syncTimers > 0) ~> (~state.isPlaying \/ ~NoSession)

(* an utterance started within the 300 ms of a stop() has ended there:     *)
(* isPlaying is still true and its timer is waiting for that of the stop() *)
C38_Witness ==
    /\ NoSession /\ state.isPlaying /\ manualStop /\ ~speechUtterance /\ uttLate = 0
    /\ syncWaits # << >> /\ Head(syncWaits) > 0

----------------------------------------------------------------------------
(* One update of the side record from its call to its end *)

(* updateArtifactStoriesJson(storyIndex, ...) of manager m run to its end  *)
(* with no other manager in between, lines 1378-1493: the get settles, the *)
(* put settles, and a put of the array read that rejects is followed by    *)
(* the put of the re-created array (which succeeds here)                   *)
updated(r, m, storyIndex, readOk, putOk) ==
    LET r1 == putDone(getDone(updateArtifactStoriesJson(r, m, storyIndex), m, readOk), m, putOk)
    IN  IF r1.writers[m].phase = "put" THEN putDone(r1, m, TRUE) ELSE r1

(* C39: one update for story index i changes no entry of the record other  *)
(* than entry i, also when the read (or the parse) of the record fails and  *)
(* the record is re-created.                                                *)
C39_UpdateKeepsOtherEntries ==
    \A m \in Writers, i \in StoryIndices, readOk \in BOOLEAN, putOk \in BOOLEAN :
        sideRecord.writers[m].phase \in {"idle", "done"} =>
            \A k \in StoryIndices \ {i} :
                updated(sideRecord, m, i, readOk, putOk).stored[k] = sideRecord.stored[k]

----------------------------------------------------------------------------
(* What the story view displays *)

(* the callback StoryView subscribes, StoryView.tsx lines 194-220: it sets *)
(* a displayed value when the notified one differs from the value of the   *)
(* render the callback was made in                                         *)
viewCallback(sh, call) ==
    LET st == call.snapshot
    IN  [sh EXCEPT !.isPlaying = IF sh.seenSystemVoice /\ ~sh.seenHasAudioFile
                                    /\ call.isSpeaking # st.isPlaying
                                 THEN call.isSpeaking
                                 ELSE IF st.isPlaying # sh.seenIsPlaying THEN st.isPlaying
                                 ELSE @,
                   !.audioStatus = IF st.audioStatus # sh.seenAudioStatus THEN st.audioStatus
                                   ELSE @]

(* the callback run for each call made to it, in order *)
RECURSIVE delivered(_, _)
delivered(sh, calls) ==
    IF calls = << >> THEN sh
    ELSE delivered(IF ViewObserver \in Head(calls).who /\ sh.subscribed
                   THEN viewCallback(sh, Head(calls)) ELSE sh,
                   Tail(calls))

(* handleTogglePlayback after `await manager.togglePlayback(options)`,     *)
(* StoryView.tsx lines 402-406: togglePlayback has resolved when no        *)
(* download and no load is awaited                                         *)
toggleResolved(sh, w) ==
    IF sh.toggling /\ w.s3Inflight = 0 /\ \A e \in Elems : w.elems[e].st # "loading"
    THEN [sh EXCEPT !.toggling = FALSE, !.isPlaying = w.state.isPlaying]
    ELSE sh

CommitShown(w) ==
    /\ CommitManager(w)
    /\ shown' = toggleResolved(delivered(shown, w.calls), w)
    /\ UNCHANGED << chunking, view, sideRecord, syncWaits >>

(* initializeAudioManager for a premium voice, StoryView.tsx lines         *)
(* 165-244: the displayed isPlaying is reset, the callback is subscribed   *)
(* (and called at once), audioStatus is displayed as the existence check   *)
(* says, and the manager is given the key or the text                      *)
MountStory(audioExists) ==
    /\ ~shown.subscribed /\ voiceId = "premium"
    /\ LET sh0 == [shown EXCEPT !.subscribed = TRUE, !.isPlaying = FALSE,
                                !.hasAudioFile = audioExists,
                                !.seenIsPlaying = shown.isPlaying,
                                !.seenAudioStatus = shown.audioStatus,
                                !.seenSystemVoice = (voiceId = "system"),
                                !.seenHasAudioFile = shown.hasAudioFile]
           w1 == subscribe(World, ViewObserver)
           sh1 == [delivered(sh0, w1.calls)
                      EXCEPT !.audioStatus = IF audioExists THEN "ready" ELSE "notcreated"]
           w2 == IF audioExists THEN updateS3Path([w1 EXCEPT !.calls = << >>], AudioPath)
                 ELSE initialize([w1 EXCEPT !.calls = << >>], StoryText)
       IN  /\ CommitManager(w2)
           /\ shown' = delivered(sh1, w2.calls)
    /\ UNCHANGED << chunking, view, sideRecord, syncWaits >>

(* handleTogglePlayback, StoryView.tsx lines 382-406 *)
HandleTogglePlaybackShown ==
    /\ shown.subscribed /\ ~shown.toggling
    /\ LET w == Collect(togglePlayback(World, shown.hasAudioFile))
       IN  /\ CommitManager(w)
           /\ shown' = toggleResolved(delivered([shown EXCEPT !.toggling = TRUE], w.calls), w)
    /\ UNCHANGED << chunking, view, sideRecord, syncWaits >>

(* The view of a premium voice, its manager and the events of a track *)
NextShown ==
    \/ \E audioExists \in BOOLEAN : MountStory(audioExists)
    \/ HandleTogglePlaybackShown
    \/ \E x \in BOOLEAN : initPending > 0 /\ CommitShown(initializeDone(World, x))
    \/ \E r \in {"ok", "notfound", "failed"} :
           s3Inflight > 0 /\ CommitShown(Collect(playFromS3Done(World, r)))
    \/ \E e \in Elems : elems[e].st = "loading" /\ CommitShown(Collect(loadDone(World, e)))
    \/ \E e \in Elems : elems[e].st = "starting" /\ CommitShown(playResolved(World, e))
    \/ \E e \in Elems : elems[e].st = "playing" /\ CommitShown(Collect(elemEnded(World, e)))
    \/ \E e \in Elems : elems[e].pauseEv /\ CommitShown(Collect(pauseEvent(World, e)))
    \/ stopTimers > 0 /\ CommitShown(stopTimer(World))

SpecShown == Init /\ [][NextShown]_vars

(* the callback of the view has been called by the handler that just ran *)
ViewNotified == ViewObserver \in notified.who

(* C40: after every notification delivered to the callback StoryView       *)
(* subscribed, the displayed isPlaying and audioStatus are those of the    *)
(* notified state (track backend), for every sequence of notifications,    *)
(* including true followed by false when a track ends naturally.           *)
C40_ViewFollowsManager ==
    shown.subscribed /\ ViewNotified =>
        /\ shown.isPlaying = notified.snapshot.isPlaying
        /\ shown.audioStatus = notified.snapshot.audioStatus

=============================================================================
